---- MODULE Spec2Model ----
(***************************************************************************)
(* A model of the review pipeline of sheet_review.py, app.py and           *)
(* passage_ai_eng.py: the call to the language model with its retries, the *)
(* normalizer of the reply, the report filters, the punctuation rules, the *)
(* dedup, the source split, and the entry points that chain them.          *)
(*                                                                         *)
(* TEXTS.  A Python str is modelled as a sequence of symbols.  A symbol is *)
(* a TLA+ string that stands for ONE code point, or for a fixed run of     *)
(* code points of an explanation (a phrase) that no operation of the       *)
(* program cuts: every keyword the program searches for is a sequence of   *)
(* whole symbols, and no symbol holds a keyword, a quote, an arrow, a      *)
(* colon or a white space inside it.  Quoted fragments and source texts    *)
(* are written code point by code point, so that len() is exact on them.   *)
(*                                                                         *)
(*   " "  U+0020     "TAB" U+0009    "NL" U+000A    "ZWSP" U+200B          *)
(*   "-" "'" ":" "." "?" "!" "," "(" ")" "]" "/"  themselves               *)
(*   "DQ" U+0022   "BSL" U+005C   "BTICK" U+0060   "ARROW" U+2192          *)
(*   "RDQ" ” "RSQ" ’ "RCB" 」 "RWCB" 』 "RDAB" 》 "RAB" 〉                   *)
(*   "a" "b" "c" ... one Latin letter each                                 *)
(*   "h_xxx"  one Hangul syllable each (h_geu 그, h_neun 는, h_kkeut 끝 ..) *)
(*   "K_xxx"  a Korean phrase of an explanation, "E_xxx" an English one    *)
(***************************************************************************)
EXTENDS Naturals, Integers, Sequences, FiniteSets, TLC

-----------------------------------------------------------------------------
(* Python str primitives                                                   *)

\* str.isspace() of one code point (U+200B is not white space in Python)
IsSpace(c) == c \in {" ", "TAB", "NL"}

\* the line boundaries of str.splitlines() that the model's alphabet holds
IsLineBreak(c) == c = "NL"

\* s[k:k+len(p)] == p   (k is 1-based)
StartsAt(s, p, k) ==
    /\ k >= 1
    /\ k + Len(p) - 1 <= Len(s)
    /\ \A i \in 1..Len(p) : s[k + i - 1] = p[i]

\* p in s
Contains(s, p) == \E k \in 1..(Len(s) - Len(p) + 1) : StartsAt(s, p, k)

\* any(k in s for k in keys)
ContainsAny(s, keys) == \E p \in keys : Contains(s, p)

\* s.endswith(p)
EndsWith(s, p) == Len(p) <= Len(s) /\ StartsAt(s, p, Len(s) - Len(p) + 1)

\* s.replace(c, "") for a one code point c
Remove(s, c) == LET keep(x) == x # c IN SelectSeq(s, keep)

\* the least and the greatest number of a set that is not empty
Least(S) == CHOOSE x \in S : \A y \in S : x <= y
Greatest(S) == CHOOSE x \in S : \A y \in S : x >= y

\* the positions of s that hold no white space
NonSpace(s) == { i \in 1..Len(s) : ~IsSpace(s[i]) }

\* s.lstrip(), s.rstrip(), s.strip()
lstrip(s) == IF NonSpace(s) = {} THEN <<>> ELSE SubSeq(s, Least(NonSpace(s)), Len(s))

rstrip(s) == IF NonSpace(s) = {} THEN <<>> ELSE SubSeq(s, 1, Greatest(NonSpace(s)))

strip(s) == lstrip(rstrip(s))

\* the positions of the line breaks of s
Breaks(s) == { i \in 1..Len(s) : IsLineBreak(s[i]) }

\* s.splitlines(): cut at every line break; a final line break opens no line
RECURSIVE splitlines(_)
CutAt(s, i) == <<SubSeq(s, 1, i - 1)>> \o splitlines(SubSeq(s, i + 1, Len(s)))
splitlines(s) ==
    IF Len(s) = 0 THEN <<>>
    ELSE IF Breaks(s) = {} THEN <<s>>
    ELSE CutAt(s, Least(Breaks(s)))

\* "\n".join(lines)
RECURSIVE join(_)
join(lines) ==
    IF Len(lines) = 0 THEN <<>>
    ELSE IF Len(lines) = 1 THEN lines[1]
    ELSE lines[1] \o <<"NL">> \o join(Tail(lines))

\* [l.strip() for l in lines]
StripAll(lines) == [i \in 1..Len(lines) |-> strip(lines[i])]

\* not l  (the empty str is falsy)
Empty(s) == Len(s) = 0

-----------------------------------------------------------------------------
(* The bullet pattern  ^- '(.+?)' → '(.+?)':  and its variants             *)

BulletHead == <<"-", " ", "'">>
BulletSep  == <<"'", " ", "ARROW", " ", "'">>
BulletEnd  == <<"'", ":">>

\* "불필요한 공백" | "띄어쓰기" | "공백"   (the alternation of sheet_review.py:572)
WhiteClaimWords == { <<"K_bulpiryohan", " ", "K_gongbaek">>, <<"K_ttuieosseugi">>, <<"K_gongbaek">> }

\* What must follow the "':" of a match, by variant of the pattern:
\*   "base"   nothing                       ^- '(.+?)' → '(.+?)':
\*   "msg"    \s*(.+)$  one code point more  (dedup_korean_bullet_lines)
\*   "white"  .*(불필요한 공백|띄어쓰기|공백)   (drop_false_whitespace_claims)
TailOK(rest, mode) ==
    CASE mode = "base"  -> TRUE
      [] mode = "msg"   -> Len(rest) >= 1
      [] mode = "white" -> ContainsAny(rest, WhiteClaimWords)

\* '.' matches any code point but the newline
NoNewline(s) == \A i \in 1..Len(s) : s[i] # "NL"

\* The ends i of group 1 and j of group 2 that the pattern admits on s
OrigEnds(s) == { i \in 4..(Len(s) - 7) : StartsAt(s, BulletSep, i + 1) }
FixEnds(s, i, mode) ==
    { j \in (i + 6)..(Len(s) - 2) :
        /\ StartsAt(s, BulletEnd, j + 1)
        /\ TailOK(SubSeq(s, j + 3, Len(s)), mode) }

\* the ends of group 1 for which some group 2 completes the match
OrigOK(s, mode) == { i \in OrigEnds(s) : FixEnds(s, i, mode) # {} }

\* group 3 of the "msg" variant: \s* gives back one code point when the rest is
\* white space only
MsgOf(rest) ==
    IF rest = <<>> THEN <<>>
    ELSE IF lstrip(rest) = <<>> THEN <<rest[Len(rest)]>>
    ELSE lstrip(rest)

NoMatch == [ok |-> FALSE, orig |-> <<>>, fix |-> <<>>, msg |-> <<>>]

\* the match whose group 1 ends at i and whose group 2 ends at j
MatchAt(s, i, j) ==
    [ok   |-> TRUE,
     orig |-> SubSeq(s, 4, i),
     fix  |-> SubSeq(s, i + 6, j),
     msg  |-> MsgOf(SubSeq(s, j + 3, Len(s)))]

\* re.match of the pattern on s.  Both groups are lazy: the regex engine tries
\* the shortest group 1 first and, for it, the shortest group 2, and gives a longer
\* group 1 only when no group 2 completes the match.
MatchFrom(s, i, mode) == MatchAt(s, i, Least(FixEnds(s, i, mode)))

BulletMatch(s, mode) ==
    IF ~StartsAt(s, BulletHead, 1) \/ ~NoNewline(s) \/ OrigOK(s, mode) = {}
    THEN NoMatch
    ELSE MatchFrom(s, Least(OrigOK(s, mode)), mode)

\* A line as the model writes it:  - 'orig' → 'fix': msg
Bullet(orig, fix, msg) ==
    BulletHead \o orig \o BulletSep \o fix \o BulletEnd \o <<" ">> \o msg

-----------------------------------------------------------------------------
(* sheet_review.py: character classes                                      *)

HangulSyms ==
    { "h_geu", "h_neun", "h_hak", "h_gyo", "h_e", "h_gat", "h_da", "h_kkeut",
      "h_sa", "h_gwa", "h_reul", "h_su", "h_it", "h_eot", "h_haet", "h_go",
      "h_yeok", "h_hal", "h_eul" }
LatinSyms == { "a", "b", "c", "d", "e", "l", "p", "A", "B", "C" }

\* any('가' <= ch <= '힣' for ch in text)
contains_hangul(text) == \E i \in 1..Len(text) : text[i] \in HangulSyms

\* any(('a' <= ch <= 'z') or ('A' <= ch <= 'Z') for ch in text)
contains_latin(text) == \E i \in 1..Len(text) : text[i] \in LatinSyms

\* ".?!"
Terminal == { ".", "?", "!" }

\* ['"', "'", "”", "’", "」", "』", "》", "〉", ")", "]"]
Closers == { "DQ", "'", "RDQ", "RSQ", "RCB", "RWCB", "RDAB", "RAB", ")", "]" }

\* ['"', "'", "”", "’", "」", "』", "]"]   (drop_false_period_claims)
ClaimClosers == { "DQ", "'", "RDQ", "RSQ", "RCB", "RWCB", "]" }

\* s[-1] in ".?!" or (len(s) >= 2 and s[-1] in closers and s[-2] in ".?!")
EndOK(s, closers) ==
    /\ Len(s) >= 1
    /\ \/ s[Len(s)] \in Terminal
       \/ Len(s) >= 2 /\ s[Len(s)] \in closers /\ s[Len(s) - 1] \in Terminal

-----------------------------------------------------------------------------
(* sheet_review.py: the report filters                                     *)

\* drop_lines_not_in_source: source_text without " ", "\n", U+200B, stripped
normalized_src(source_text) ==
    strip(Remove(Remove(Remove(source_text, " "), "NL"), "ZWSP"))

\* the stripped lines of a report
Lines(report) == StripAll(splitlines(report))

\* whether the line of match m passes: it is no bullet line, or its original is in
\* the source as it stands, or is, without its spaces, in the normalized source
Grounded(m, source_text) ==
    \/ ~m.ok
    \/ Contains(source_text, m.orig)
    \/ Contains(normalized_src(source_text), Remove(m.orig, " "))

\* a grounding filter that looks no fragment up: it drops the blank lines only
drop_lines_unchecked(source_text, report) ==
    LET keep(l) == ~Empty(l)
    IN  IF Empty(report) THEN <<>> ELSE join(SelectSeq(Lines(report), keep))

drop_lines_not_in_source(source_text, report) ==
    LET keep(l) == ~Empty(l) /\ Grounded(BulletMatch(l, "base"), source_text)
    IN  IF Empty(report) THEN <<>> ELSE join(SelectSeq(Lines(report), keep))

\* the six escape patterns of false_patterns: BSL DQ, BSL ', DQ / DQ, DQ /, / DQ, BSL BTICK
false_patterns ==
    { <<"BSL", "DQ">>, <<"BSL", "'">>, <<"DQ", "/", "DQ">>, <<"DQ", "/">>,
      <<"/", "DQ">>, <<"BSL", "BTICK">> }

drop_escape_false(report) ==
    LET keep(l) == ~Empty(l) /\ ~ContainsAny(l, false_patterns)
    IN  IF Empty(report) THEN <<>> ELSE join(SelectSeq(Lines(report), keep))

\* orig.strip() == fixed.strip() on a bullet line
SelfEqual(m) == m.ok /\ strip(m.orig) = strip(m.fix)

\* keeps the blank lines of the report (as empty lines)
remove_self_equal(report) ==
    LET keep(l) == ~SelfEqual(BulletMatch(l, "base"))
    IN  IF Empty(report) THEN <<>> ELSE join(SelectSeq(Lines(report), keep))

clean_self_equal_corrections(report) ==
    LET keep(l) == ~Empty(l) /\ ~SelfEqual(BulletMatch(l, "base"))
    IN  IF Empty(report) THEN <<>> ELSE join(SelectSeq(Lines(report), keep))

\* Hangul in the original and Latin in the replacement, or the other way round
LanguageSwitch(m) ==
    /\ m.ok
    /\ \/ contains_hangul(m.orig) /\ contains_latin(m.fix)
       \/ contains_latin(m.orig) /\ contains_hangul(m.fix)

drop_language_switch(report) ==
    LET keep(l) == ~LanguageSwitch(BulletMatch(l, "base"))
    IN  IF Empty(report) THEN <<>> ELSE join(SelectSeq(Lines(report), keep))

\* abs(len(fix) - len(orig)) >= 3
LargeEdit == 3

\* abs(a - b)
AbsDiff(a, b) == IF a >= b THEN a - b ELSE b - a

\* the lengths are taken without the spaces
IsLargeEdit(m) ==
    m.ok /\ AbsDiff(Len(Remove(m.fix, " ")), Len(Remove(m.orig, " "))) >= LargeEdit

\* a filter that takes every change of length for a large edit
drop_any_length_change(report) ==
    LET keep(l) == LET m == BulletMatch(l, "base")
                   IN  ~(m.ok /\ Len(Remove(m.fix, " ")) # Len(Remove(m.orig, " ")))
    IN  IF Empty(report) THEN <<>> ELSE join(SelectSeq(Lines(report), keep))

drop_large_edits(report) ==
    LET keep(l) == ~IsLargeEdit(BulletMatch(l, "base"))
    IN  IF Empty(report) THEN <<>> ELSE join(SelectSeq(Lines(report), keep))

\* "Missing end-of-sentence punctuation", "sentence-ending punctuation",
\* "마침표가 없습니다", "마침표가 필요", "마침표가 빠져", "문장 끝에 마침표가 없"
false_keywords ==
    { <<"E_Missing", " ", "E_end_of_sentence", " ", "E_punctuation">>,
      <<"E_sentence_ending", " ", "E_punctuation">>,
      <<"K_machimpyo", "K_ga", " ", "K_eop", "K_seumnida">>,
      <<"K_machimpyo", "K_ga", " ", "K_piryo">>,
      <<"K_machimpyo", "K_ga", " ", "K_ppajyeo">>,
      <<"K_munjang", " ", "K_kkeute", " ", "K_machimpyo", "K_ga", " ", "K_eop">> }

\* the quoted original of a bullet line, without its trailing white space, ends
\* with a terminal mark, or with one and a closer after it
QuotedEndOK(m, closers) == m.ok /\ EndOK(rstrip(m.orig), closers)

\* a filter that lets every claim of a missing period through
keep_period_claims(text, report) ==
    IF Empty(report) THEN <<>> ELSE join(Lines(report))

\* the argument text is not read by the function
drop_false_period_claims(text, report) ==
    LET keep(l) ==
            \/ ~ContainsAny(l, false_keywords)
            \/ ~QuotedEndOK(BulletMatch(l, "base"), ClaimClosers)
    IN  IF Empty(report) THEN <<>> ELSE join(SelectSeq(Lines(report), keep))

\* "Missing space after", "space after punctuation", "space after the punctuation",
\* "공백이 필요", "공백을 추가해야", "space after the sentence-ending punctuation mark"
space_style_keywords ==
    { <<"E_Missing", " ", "E_space", " ", "E_after">>,
      <<"E_space", " ", "E_after", " ", "E_punctuation">>,
      <<"E_space", " ", "E_after", " ", "E_the", " ", "E_punctuation">>,
      <<"K_gongbaek", "K_i", " ", "K_piryo">>,
      <<"K_gongbaek", "K_eul", " ", "K_chugahaeya">>,
      <<"E_space", " ", "E_after", " ", "E_the", " ", "E_sentence_ending", " ",
        "E_punctuation", " ", "E_mark">> }

\* the keywords are looked up in the line before it is stripped
drop_punctuation_space_style(report) ==
    LET keep(l) == ~ContainsAny(l, space_style_keywords)
    IN  IF Empty(report) THEN <<>>
        ELSE join(StripAll(SelectSeq(splitlines(report), keep)))

\* the class of sheet_review.py:585 (space, tab, U+3000, U+200B, U+200C, U+200D)
BlankSyms == { " ", "TAB", "ZWSP" }

\* a claim about white space whose quoted original holds none
FalseWhiteClaim(m) == m.ok /\ \A i \in 1..Len(m.orig) : m.orig[i] \notin BlankSyms

\* the argument text is not read by the function
drop_false_whitespace_claims(text, report) ==
    LET keep(l) == ~Empty(l) /\ ~FalseWhiteClaim(BulletMatch(l, "white"))
    IN  IF Empty(report) THEN <<>> ELSE join(SelectSeq(Lines(report), keep))

\* the lines of a report, last line first
RECURSIVE Reversed(_)
Reversed(lines) ==
    IF Len(lines) = 0 THEN <<>> ELSE Append(Reversed(Tail(lines)), Head(lines))

\* a chain that returns the lines that pass every filter last line first
sanitize_report_reversed(original_text, report) ==
    IF Empty(report) THEN <<>>
    ELSE join(Reversed(Lines(
           drop_lines_not_in_source(original_text,
           drop_false_whitespace_claims(original_text,
           drop_punctuation_space_style(
           drop_false_period_claims(original_text,
           drop_large_edits(
           drop_language_switch(
           drop_escape_false(
           remove_self_equal(report)))))))))))

sanitize_report(original_text, report) ==
    IF Empty(report) THEN <<>>
    ELSE strip(
           drop_lines_not_in_source(original_text,
           drop_false_whitespace_claims(original_text,
           drop_punctuation_space_style(
           drop_false_period_claims(original_text,
           drop_large_edits(
           drop_language_switch(
           drop_escape_false(
           remove_self_equal(report)))))))))

-----------------------------------------------------------------------------
(* sheet_review.py: the punctuation rules                                  *)

\* not text or not text.strip()
Blank(text) == Empty(strip(text))

\* "- 문단 마지막 문장 끝에 마침표(또는 물음표, 느낌표)가 빠져 있으므로 적절한
\*  문장부호를 추가해야 합니다."                              (sheet_review.py:243)
FinalLine ==
    <<"-", " ", "K_mundan", " ", "K_majimak", " ", "K_munjang", " ", "K_kkeute", " ",
      "K_machimpyo", "(", "K_ttoneun", " ", "K_mureumpyo", ",", " ", "K_neukkimpyo", ")",
      "K_ga", " ", "K_ppajyeo", " ", "K_isseumeuro", " ", "K_jeokjeol", "K_han", " ",
      "K_munjangbuho", "K_reul", " ", "K_chugahaeya", " ", "K_hamnida", ".">>

\* "- 문장 끝에 종결부호(., ?, !)가 누락된 문장이 있습니다."   (sheet_review.py:280, app.py:301)
SentenceLine ==
    <<"-", " ", "K_munjang", " ", "K_kkeute", " ", "K_jonggyeolbuho", "(", ".", ",", " ",
      "?", ",", " ", "!", ")", "K_ga", " ", "K_nurakdoen", " ", "K_munjang", "K_i", " ",
      "K_it", "K_seumnida", ".">>

\* report.rstrip() + "\n" + line   if report else   line
AppendLine(report, line) ==
    IF Empty(report) THEN line ELSE rstrip(report) \o <<"NL">> \o line

\* "마침표" in report or "문장부호" in report
FinalMarkers == { <<"K_machimpyo">>, <<"K_munjangbuho">> }

ensure_final_punctuation_error(text, report) ==
    IF Blank(text) THEN report
    ELSE IF EndOK(rstrip(text), Closers) THEN report
    ELSE IF ~Empty(report) /\ ContainsAny(report, FinalMarkers) THEN report
    ELSE AppendLine(report, FinalLine)

\* re.split(r'(?<=[.!?])\s+', t): cut at each run of white space that follows . ! or ?
RECURSIVE SentenceSplit(_)
SentenceSplit(t) ==
    LET cuts == { i \in 2..Len(t) : IsSpace(t[i]) /\ t[i - 1] \in Terminal }
    IN  IF cuts = {} THEN <<t>>
        ELSE LET i == CHOOSE x \in cuts : \A y \in cuts : x <= y
                 after == { k \in (i + 1)..Len(t) : ~IsSpace(t[k]) }
                 e == IF after = {} THEN Len(t) + 1
                      ELSE CHOOSE x \in after : \A y \in after : x <= y
             IN  <<SubSeq(t, 1, i - 1)>> \o SentenceSplit(SubSeq(t, e, Len(t)))

\* a per-sentence check that takes every sentence that ends with a closer
MissingSentencesLenient(text) ==
    LET bad(x) == ~Empty(x) /\ x[Len(x)] \notin Terminal \cup Closers
    IN  SelectSeq(StripAll(SentenceSplit(strip(text))), bad)

\* the sentences of text that the per-sentence check finds without a terminal mark
MissingSentences(text) ==
    LET bad(x) == ~Empty(x) /\ ~EndOK(x, Closers)
    IN  SelectSeq(StripAll(SentenceSplit(strip(text))), bad)

ensure_sentence_end_punctuation(text, report) ==
    IF Blank(text) THEN report
    ELSE IF MissingSentences(text) = <<>> THEN report
    ELSE AppendLine(report, SentenceLine)

-----------------------------------------------------------------------------
(* sheet_review.py: dedup and source split                                 *)

\* a first pass in which the last copy of a line wins
UniqueAddLast(front, l) ==
    LET other(x) == x # l IN Append(SelectSeq(front, other), l)

\* lines without the later copies of a line (first occurrence wins)
RECURSIVE Unique(_)
UniqueAdd(front, l) ==
    IF \E i \in 1..Len(front) : front[i] = l THEN front ELSE Append(front, l)
Unique(lines) ==
    IF Len(lines) = 0 THEN <<>>
    ELSE UniqueAdd(Unique(SubSeq(lines, 1, Len(lines) - 1)), lines[Len(lines)])

\* "불필요한 마침표"
NeedlessPeriod == <<"K_bulpiryohan", " ", "K_machimpyo">>

\* a bullet line whose explanation holds "불필요한 마침표"
NeedlessClaim(m) == m.ok /\ Contains(m.msg, NeedlessPeriod)

\* a comparison that takes lines of every kind
ShorterOfAnyKind(m1, m2) ==
    /\ m1.ok
    /\ m2.ok
    /\ Contains(m2.orig, m1.orig)
    /\ Len(m1.orig) < Len(m2.orig)

\* o1 in o2 and len(o1) < len(o2), between two such lines
Shorter(m1, m2) ==
    /\ NeedlessClaim(m1)
    /\ NeedlessClaim(m2)
    /\ Contains(m2.orig, m1.orig)
    /\ Len(m1.orig) < Len(m2.orig)

\* a second pass that compares a line with the line after it only
DedupDropNext(l, unique_lines) ==
    \E j \in 1..(Len(unique_lines) - 1) :
        /\ unique_lines[j] = l
        /\ Shorter(BulletMatch(l, "msg"), BulletMatch(unique_lines[j + 1], "msg"))

\* whether the second pass drops line l of unique_lines (which holds no line twice)
DedupDrop(l, unique_lines) ==
    \E j \in 1..Len(unique_lines) :
        Shorter(BulletMatch(l, "msg"), BulletMatch(unique_lines[j], "msg"))

\* final_lines
DedupKeep(unique_lines) ==
    LET keep(l) == ~DedupDrop(l, unique_lines)
    IN  join(SelectSeq(unique_lines, keep))

dedup_korean_bullet_lines(report) ==
    LET nonempty(l) == ~Empty(l)
    IN  IF Empty(report) THEN <<>>
        ELSE DedupKeep(Unique(SelectSeq(Lines(report), nonempty)))

\* a routing that sends every fragment of the markdown text to the markdown bucket
BucketOfMarkdownFirst(m, plain_text, md_text) ==
    IF m.ok /\ Contains(md_text, m.orig) THEN "md" ELSE "plain"

\* "plain" or "md": the bucket split_report_by_source puts the line of match m in
Bucket(m, plain_text, md_text) ==
    IF m.ok /\ Contains(md_text, m.orig) /\ ~Contains(plain_text, m.orig)
    THEN "md" ELSE "plain"

\* a split that leaves in the plain bucket the lines it puts in the markdown bucket
SplitLinesCopied(lines, plain_text, md_text) ==
    LET toPlain(l) == ~Empty(l)
        toMd(l) ==
            ~Empty(l) /\ Bucket(BulletMatch(l, "base"), plain_text, md_text) = "md"
    IN  << join(SelectSeq(lines, toPlain)), join(SelectSeq(lines, toMd)) >>

\* plain_lines and md_lines, joined
SplitLines(lines, plain_text, md_text) ==
    LET toPlain(l) ==
            ~Empty(l) /\ Bucket(BulletMatch(l, "base"), plain_text, md_text) = "plain"
        toMd(l) ==
            ~Empty(l) /\ Bucket(BulletMatch(l, "base"), plain_text, md_text) = "md"
    IN  << join(SelectSeq(lines, toPlain)), join(SelectSeq(lines, toMd)) >>

\* returns <<plain report, markdown report>>
split_report_by_source(report, plain_text, md_text) ==
    IF Empty(report) THEN << <<>>, <<>> >>
    ELSE SplitLines(Lines(report), plain_text, md_text)

-----------------------------------------------------------------------------
(* app.py: its own copies of the filters and punctuation rules             *)

\* only the literal occurrence counts
app_drop_lines_not_in_source(source_text, report) ==
    LET lit(m) == ~m.ok \/ Contains(source_text, m.orig)
        keep(l) == ~Empty(l) /\ lit(BulletMatch(l, "base"))
    IN  IF Empty(report) THEN <<>> ELSE join(SelectSeq(Lines(report), keep))

\* app.py:115-145 is the text of sheet_review.py:287-317
app_clean_self_equal_corrections(report) == clean_self_equal_corrections(report)

\* "마침표가 없습니다", "마침표가 빠져", "마침표가 필요", "마침표를 찍어야"
app_bad_phrases ==
    { <<"K_machimpyo", "K_ga", " ", "K_eop", "K_seumnida">>,
      <<"K_machimpyo", "K_ga", " ", "K_ppajyeo">>,
      <<"K_machimpyo", "K_ga", " ", "K_piryo">>,
      <<"K_machimpyo", "K_reul", " ", "K_jjigeoya">> }

\* judged by the last code point of the whole text; a closing quote is not looked through
app_drop_false_period_errors(english_text, report) ==
    LET keep(l) == ~ContainsAny(l, app_bad_phrases)
    IN  IF Empty(report) THEN <<>>
        ELSE IF EndOK(rstrip(english_text), {})
        THEN join(StripAll(SelectSeq(splitlines(report), keep)))
        ELSE report

\* app_bad_phrases and "문장 끝에 마침표가 없"
app_korean_bad_phrases ==
    app_bad_phrases \cup
    { <<"K_munjang", " ", "K_kkeute", " ", "K_machimpyo", "K_ga", " ", "K_eop">> }

\* judged by the end of the quoted fragment
drop_false_korean_period_errors(report) ==
    LET keep(l) ==
            /\ ~Empty(l)
            /\ \/ ~ContainsAny(l, app_korean_bad_phrases)
               \/ ~QuotedEndOK(BulletMatch(l, "base"), Closers)
    IN  IF Empty(report) THEN <<>> ELSE join(SelectSeq(Lines(report), keep))

\* "- '수 있었다' → '수 있었다.': 마지막 문장에 마침표가 없습니다."   (app.py:256)
AppFinalLine ==
    <<"-", " ", "'", "h_su", " ", "h_it", "h_eot", "h_da", "'", " ", "ARROW", " ", "'",
      "h_su", " ", "h_it", "h_eot", "h_da", ".", "'", ":", " ",
      "K_majimak", " ", "K_munjang", "K_e", " ", "K_machimpyo", "K_ga", " ", "K_eop",
      "K_seumnida", ".">>

\* "마지막 문장에 마침표", "문장 끝에 마침표가 없"
AppFinalMarkers ==
    { <<"K_majimak", " ", "K_munjang", "K_e", " ", "K_machimpyo">>,
      <<"K_munjang", " ", "K_kkeute", " ", "K_machimpyo", "K_ga", " ", "K_eop">> }

app_ensure_final_punctuation_error(text, report) ==
    IF Blank(text) THEN report
    ELSE IF EndOK(rstrip(text), Closers) THEN report
    ELSE IF ~Empty(report) /\ ContainsAny(report, AppFinalMarkers) THEN report
    ELSE AppendLine(report, AppFinalLine)

\* "마지막 문장에 마침표", "종결부호", "문장 끝에 마침표가 없", "마침표가 없습니다"
AppSentenceMarkers ==
    AppFinalMarkers \cup
    { <<"K_jonggyeolbuho">>, <<"K_machimpyo", "K_ga", " ", "K_eop", "K_seumnida">> }

app_ensure_sentence_end_punctuation(text, report) ==
    IF Blank(text) THEN report
    ELSE IF MissingSentences(text) = <<>> THEN report
    ELSE IF ~Empty(report) /\ ContainsAny(report, AppSentenceMarkers) THEN report
    ELSE AppendLine(report, SentenceLine)

\* app.py:309-358 is the text of sheet_review.py:80-130
app_dedup_korean_bullet_lines(report) == dedup_korean_bullet_lines(report)

-----------------------------------------------------------------------------
(* Values decoded from the reply (json.loads): each carries its Python type *)

VStr(x)   == [t |-> "str", s |-> x]
VNone     == [t |-> "none"]
VInt(n)   == [t |-> "int", n |-> n]
VList(xs) == [t |-> "list", xs |-> xs]
VDict(f)  == [t |-> "dict", f |-> f]

\* bool(v)
Truthy(v) ==
    CASE v.t = "str"  -> v.s # <<>>
      [] v.t = "none" -> FALSE
      [] v.t = "int"  -> v.n # 0
      [] v.t = "list" -> v.xs # <<>>
      [] v.t = "dict" -> DOMAIN v.f # {}

\* d.get(key, default)
Get(d, key, default) == IF key \in DOMAIN d.f THEN d.f[key] ELSE default

\* d.get(key)
GetOrNone(d, key) == Get(d, key, VNone)

\* v or w
Or(v, w) == IF Truthy(v) THEN v ELSE w

\* whether  kw in v  is defined (a TypeError otherwise)
CanIn(v) == v.t \in {"str", "list", "dict"}

\* kw in v, for a str kw: substring of a str, element of a list, key of a dict
\* (the keys of the modelled dicts are field names, never a keyword)
In(kw, v) ==
    CASE v.t = "str"  -> Contains(v.s, kw)
      [] v.t = "list" -> \E i \in 1..Len(v.xs) : v.xs[i] = VStr(kw)
      [] v.t = "dict" -> FALSE

Digits == { "0", "1", "2", "3", "4", "5", "6", "7", "8", "9" }
DigitVal(d) == CASE d = "0" -> 0 [] d = "1" -> 1 [] d = "2" -> 2 [] d = "3" -> 3
                 [] d = "4" -> 4 [] d = "5" -> 5 [] d = "6" -> 6 [] d = "7" -> 7
                 [] d = "8" -> 8 [] d = "9" -> 9

\* whether int(v) returns (an int, or a str of one digit with an optional minus sign)
IntOK(v) ==
    \/ v.t = "int"
    \/ v.t = "str" /\ \/ Len(v.s) = 1 /\ v.s[1] \in Digits
                      \/ Len(v.s) = 2 /\ v.s[1] = "-" /\ v.s[2] \in Digits

\* int(v) where IntOK(v)
IntOf(v) ==
    IF v.t = "int" THEN v.n
    ELSE IF Len(v.s) = 1 THEN DigitVal(v.s[1]) ELSE 0 - DigitVal(v.s[2])

\* str(v), as far as the messages of the program print it
PyStr(v) ==
    CASE v.t = "str"  -> v.s
      [] v.t = "none" -> <<"E_None">>
      [] v.t = "int"  -> <<"E_int">>
      [] v.t = "list" -> <<"[", "E_items", "]">>
      [] v.t = "dict" -> IF DOMAIN v.f = {} THEN <<"{", "}">> ELSE <<"{", "E_items", "}">>

-----------------------------------------------------------------------------
(* validate_and_clean_analysis                                             *)

ReportKeys == { "content_typo_report", "translated_typo_report", "markdown_report" }

\* "문맥상", "부적절", "어색", "더 자연스럽", "더 적절", "수정하는 것이 좋", "제안",
\* "바꾸는 것", "의미를 명확히"
forbidden_keywords ==
    { <<"K_munmaeksang">>, <<"K_bujeokjeol">>, <<"K_eosaek">>,
      <<"K_deo", " ", "K_jayeonseureop">>, <<"K_deo", " ", "K_jeokjeol">>,
      <<"K_sujeonghaneun", " ", "K_geot", "K_i", " ", "K_jo">>, <<"K_jean">>,
      <<"K_bakkuneun", " ", "K_geot">>, <<"K_uimireul", " ", "K_myeonghwakhi">> }

\* "오류 없음", "정상", "문제 없음", "수정할 필요 없음"
forbidden_phrases ==
    { <<"K_oryu", " ", "K_eop", "K_eum">>, <<"K_jeongsang">>,
      <<"K_munje", " ", "K_eop", "K_eum">>,
      <<"K_sujeonghal", " ", "K_piryo", " ", "K_eop", "K_eum">> }

\* "Gemini API 내부 오류: "
GeminiInternalError == <<"E_Gemini", " ", "E_API", " ", "K_naebu", " ", "K_oryu", ":", " ">>

\* "AI 응답이 유효한 JSON 형식이 아님"
NotValidJson ==
    <<"E_AI", " ", "K_eungdabi", " ", "K_yuhyohan", " ", "E_JSON", " ", "K_hyeongsigi",
      " ", "K_anim">>

\* The dict a normalizer or a call returns; raised is TRUE when it raised instead.
Result(score, content, translated, markdown) ==
    [raised |-> FALSE, suspicion_score |-> score, content_typo_report |-> content,
     translated_typo_report |-> translated, markdown_report |-> markdown]

Raised == [raised |-> TRUE, suspicion_score |-> VNone, content_typo_report |-> VNone,
           translated_typo_report |-> VNone, markdown_report |-> VNone]

\* {"suspicion_score": 5, "content_typo_report": message, the other reports ""}
ErrorResult(message) == Result(VInt(5), VStr(message), VStr(<<>>), VStr(<<>>))

\* the message of the "ERROR" branch
ErrorMessage(result) ==
    LET err_obj == Or(GetOrNone(result, "ERROR"), VDict(<<>>))
    IN  IF err_obj.t = "dict"
        THEN PyStr(Or(GetOrNone(err_obj, "message"), VStr(PyStr(err_obj))))
        ELSE PyStr(err_obj)

\* reports[key] = result.get(key, "") or ""
RawReports(result) == [k \in ReportKeys |-> Or(Get(result, k, VStr(<<>>)), VStr(<<>>))]

\* a purge that blanks every field of a reply when one of them holds a marker
PurgedTogether(reports) ==
    IF \E k \in ReportKeys :
         \E kw \in forbidden_keywords \cup forbidden_phrases : In(kw, reports[k])
    THEN [k \in ReportKeys |-> VStr(<<>>)]
    ELSE reports

\* the two whole-field purges, in the order of the code
Purged(reports) ==
    LET r1 == [k \in ReportKeys |->
                 IF \E kw \in forbidden_keywords : In(kw, reports[k])
                 THEN VStr(<<>>) ELSE reports[k]]
    IN  [k \in ReportKeys |->
           IF \E ph \in forbidden_phrases : In(ph, r1[k]) THEN VStr(<<>>) ELSE r1[k]]

\* the clamp to 1..5
Clamp(n) == IF n < 1 THEN 1 ELSE IF n > 5 THEN 5 ELSE n

\* try: int(score) except: 1; then the clamp
CoerceScore(score) == Clamp(IF IntOK(score) THEN IntOf(score) ELSE 1)

\* score = 1 when no report is left, 3 when some report is left and the score was 1
AdjustScore(n, content, translated, markdown) ==
    IF ~Truthy(content) /\ ~Truthy(translated) /\ ~Truthy(markdown) THEN 1
    ELSE IF n = 1 THEN 3 ELSE n

\* the dict that is returned, from the purged reports and the cleaned content report
Normalized(score, content, reports) ==
    Result(VInt(AdjustScore(CoerceScore(score), content,
                            reports["translated_typo_report"],
                            reports["markdown_report"])),
           content,
           reports["translated_typo_report"],
           reports["markdown_report"])

\* the content report after the purges is cleaned of its self-equal lines; a content
\* report that is a list or a dict has no splitlines
CleanContent(score, reports) ==
    IF reports["content_typo_report"].t # "str" THEN Raised
    ELSE Normalized(score,
                    VStr(clean_self_equal_corrections(reports["content_typo_report"].s)),
                    reports)

\* the purges look every keyword up with "in": a TypeError on a number
PurgeReports(score, raw) ==
    IF \E k \in ReportKeys : ~CanIn(raw[k]) THEN Raised
    ELSE CleanContent(score, Purged(raw))

validate_and_clean_analysis(result) ==
    IF result.t = "dict" /\ "ERROR" \in DOMAIN result.f
    THEN ErrorResult(GeminiInternalError \o ErrorMessage(result))
    ELSE IF result.t # "dict" THEN ErrorResult(NotValidJson)
    ELSE PurgeReports(GetOrNone(result, "suspicion_score"), RawReports(result))

\* app.py: the cleaned content report also passes drop_false_period_errors when the
\* English text is given
AppPeriodCleaned(original_english_text, cleaned) ==
    IF Truthy(original_english_text)
    THEN app_drop_false_period_errors(original_english_text.s, cleaned)
    ELSE cleaned

AppCleanContent(score, reports, original_english_text) ==
    IF reports["content_typo_report"].t # "str" THEN Raised
    ELSE Normalized(score,
                    VStr(AppPeriodCleaned(original_english_text,
                           app_clean_self_equal_corrections(
                             reports["content_typo_report"].s))),
                    reports)

AppPurgeReports(score, raw, original_english_text) ==
    IF \E k \in ReportKeys : ~CanIn(raw[k]) THEN Raised
    ELSE AppCleanContent(score, Purged(raw), original_english_text)

\* app.py: no "ERROR" branch; original_english_text is VNone when it is not given
app_validate_and_clean_analysis(result, original_english_text) ==
    IF result.t # "dict" THEN ErrorResult(NotValidJson)
    ELSE AppPurgeReports(GetOrNone(result, "suspicion_score"), RawReports(result),
                         original_english_text)

-----------------------------------------------------------------------------
(* The inputs: rows of the sheet and replies of the language model         *)

\* the most lines a report of a reply holds
MaxLines == 2

\* the most lines the report of a reply for an English text holds
MaxEnLines == 1

\* explanations
Typo      == <<"K_otaja", ".">>                                   \* "오타."
JosaDup   == <<"K_josa", " ", "K_jungbok", ".">>                  \* "조사 중복."
MoreApt   == <<"K_deo", " ", "K_jeokjeol">>                       \* "더 적절"
NoPeriod  == <<"K_machimpyo", "K_ga", " ", "K_eop", "K_seumnida", ".">>  \* "마침표가 없습니다."
Needless  == <<"K_bulpiryohan", " ", "K_machimpyo">>              \* "불필요한 마침표"
Spacing   == <<"K_ttuieosseugi">>                                 \* "띄어쓰기"

\* "그는는 학교에 갔다"
TextGeu == <<"h_geu", "h_neun", "h_neun", " ", "h_hak", "h_gyo", "h_e", " ", "h_gat", "h_da">>
\* "- '그는는' → '그는': 조사 중복."
LineGeu == Bullet(<<"h_geu", "h_neun", "h_neun">>, <<"h_geu", "h_neun">>, JosaDup)

\* A scenario: the four texts of a row and the lines the model may reply with
\* for the English and for the Korean text of that row.
Scenarios ==
    << \* 1: the Korean sentence without a final mark; no English text
       [en_plain |-> <<>>, en_md |-> <<>>, ko_plain |-> TextGeu, ko_md |-> <<>>,
        en_lines |-> <<>>,
        ko_lines |-> << LineGeu,
                        Bullet(<<"h_geu", "h_neun">>, <<"h_geu", "h_neun">>, Typo),
                        Bullet(<<"h_hak", "h_gyo", "h_reul">>, <<"h_hak", "h_gyo", "h_e">>, Typo),
                        Bullet(<<"h_hak", "h_gyo", "h_e">>, <<"h_hak", "h_gyo">>, MoreApt),
                        Typo >>],
       \* 2: "끝." ends with a period; claims of a missing period
       [en_plain |-> <<>>, en_md |-> <<>>, ko_plain |-> <<"h_kkeut", ".">>, ko_md |-> <<>>,
        en_lines |-> <<>>,
        ko_lines |-> << Bullet(<<"h_kkeut", ".">>, <<"h_kkeut", ".", ".">>, NoPeriod),
                        Bullet(<<"h_kkeut">>, <<"h_kkeut", ".">>, NoPeriod),
                        <<"K_munjang", " ", "K_kkeute", " ">> \o NoPeriod >>],
       \* 3: plain and markdown texts that differ, in both languages
       [en_plain |-> <<"a", " ", "b", ".">>, en_md |-> <<"a", " ", "b", " ", "c">>,
        ko_plain |-> <<"h_yeok", "h_hal", "h_eul", " ", "h_haet", "h_go", ".", " ", "h_kkeut">>,
        ko_md |-> <<"h_yeok", "h_hal", "h_eul", " ", "h_haet", "h_go", ".", " ", "h_kkeut", ".">>,
        en_lines |-> << Bullet(<<"c">>, <<"d">>, Typo),
                        Bullet(<<"a", " ", "b">>, <<"a", " ", "b">>, Typo),
                        Bullet(<<"b">>, <<"b", ".">>, NoPeriod) >>,
        ko_lines |-> << Bullet(<<"h_haet", "h_go", ".">>, <<"h_haet", "h_go">>, Needless),
                        Bullet(<<"h_yeok", "h_hal", "h_eul", " ", "h_haet", "h_go", ".">>,
                               <<"h_yeok", "h_hal", "h_eul", " ", "h_haet", "h_go">>, Needless),
                        Bullet(<<"h_kkeut", ".">>, <<"h_kkeut">>, Typo) >>],
       \* 4: a zero-width space and a tab in the text; fragments quoted without them
       [en_plain |-> <<>>, en_md |-> <<>>,
        ko_plain |-> <<"h_geu", "ZWSP", "h_neun", " ", "h_gat", "TAB", "h_da", ".">>,
        ko_md |-> <<>>,
        en_lines |-> <<>>,
        ko_lines |-> << Bullet(<<"h_geu", "h_neun">>, <<"h_geu">>, Typo),
                        Bullet(<<"h_neun", "h_gat">>, <<"h_neun", " ", "h_gat">>, Typo),
                        Bullet(<<"h_gat", "h_da">>, <<"h_gat", "h_da", ".">>, Typo),
                        Bullet(<<"h_geu", "ZWSP", "h_neun">>, <<"h_geu", "h_neun">>, Spacing) >>] >>

\* the reports of at most n lines drawn from a pool of lines
ReportsOf(pool, n) ==
    { join([i \in DOMAIN f |-> pool[f[i]]]) : f \in UNION { [1..k -> 1..Len(pool)] : k \in 0..n } }


\* the suspicion_score of a well-formed reply
Scores == { 1, 4 }

\* a reply with its four fields
Reply(score, content, translated, markdown) ==
    VDict([suspicion_score |-> score, content_typo_report |-> VStr(content),
           translated_typo_report |-> VStr(translated), markdown_report |-> VStr(markdown)])

\* replies that are not the four str fields and an int: not a dict, an "ERROR" object,
\* no field at all, a list or a number for a report, a score that is no number or
\* is out of range
OddReplies(line) ==
    { VList(<<>>),
      VDict([ERROR |-> VDict([message |-> VStr(<<"E_quota">>)])]),
      VDict(<<>>),
      VDict([suspicion_score |-> VInt(2), translated_typo_report |-> VList(<<VStr(line)>>)]),
      VDict([suspicion_score |-> VInt(2), content_typo_report |-> VInt(7)]),
      VDict([suspicion_score |-> VStr(<<"a">>), content_typo_report |-> VStr(line),
             translated_typo_report |-> VStr(line)]),
      VDict([suspicion_score |-> VInt(9), content_typo_report |-> VStr(line),
             translated_typo_report |-> VStr(line)]) }

\* what the model may reply for an English text, given the lines it may use
EnReplies(pool) ==
    { Reply(VInt(sc), r, <<>>, <<>>) : sc \in Scores, r \in ReportsOf(pool, MaxEnLines) }
    \cup OddReplies(pool[1])

\* what the model may reply for a Korean text: the findings in translated_typo_report,
\* and possibly a line in the two other fields
KoReplies(pool) ==
    { Reply(VInt(sc), e[1], r, e[2]) :
        sc \in Scores, r \in ReportsOf(pool, MaxLines),
        e \in { << <<>>, <<>> >>, << pool[1], pool[1] >> } }
    \cup OddReplies(pool[1])

\* What one call of generate_content does: it raises, or its text is empty, or decodes
\* to a value.  The first two make the attempt fail, except that app.py returns at once
\* on an empty text.  (A text that is not JSON fails the attempt as a raise does.)
FailKinds == { "raise", "empty" }

\* str(e) of the exception of the failed attempt
ErrText(kind) ==
    CASE kind = "raise" -> <<"E_timeout">>
      [] kind = "empty" -> <<"E_empty">>

-----------------------------------------------------------------------------
(* State                                                                   *)

VARIABLES
    impl,        \* the source file whose code runs: "sheet_review", "app", "passage_ai_eng"
    pc,          \* the position of the running entry point
    side,        \* the language under review: "en" or "ko"
    row,         \* the texts under review: en_plain, en_md, ko_plain, ko_md
    reply_lines, \* the lines the model may reply with: en, ko
    max_retries, \* analyze_text_with_gemini: its parameter
    attempt,     \* analyze_text_with_gemini: the attempts that have failed so far
    last_error,  \* analyze_text_with_gemini: str of the last exception, or VNone
    waits,       \* analyze_text_with_gemini: the seconds slept, in order
    exhausted,   \* the sides whose call used up every attempt
    raw_en,      \* what the call returned for the English text (VNone: no call)
    raw_ko,      \* what the call returned for the Korean text
    final_en,    \* the normalized result for the English text
    final_ko,    \* the normalized result for the Korean text
    given,       \* the report the running filter chain was given
    filtered,    \* filtered_en / filtered_ko: the report under filtering
    out,         \* the value the entry point returned (VNone before it returns)
    sheet,       \* the worksheet: whether its header row is whole, and its data rows
    df,          \* the batch run: the records it read from the worksheet
    todo,        \* the batch run: the sheet rows of its targets not yet analysed
    results,     \* the batch run: the result of each row analysed so far
    analyzed,    \* the batch run: how many analyses of a row it has started
    writes,      \* how many times worksheet.update_cells has been called
    progress     \* the batch run: whether it has a progress callback, and its calls

\* the variables of a batch run
batch == << sheet, df, todo, results, analyzed, writes, progress >>

vars == << impl, pc, side, row, reply_lines, max_retries, attempt, last_error, waits,
           exhausted, raw_en, raw_ko, final_en, final_ko, given, filtered, out, batch >>

\* no batch runs: there is no worksheet
NoBatch ==
    /\ sheet = [headers |-> TRUE, rows |-> <<>>]
    /\ df = <<>>
    /\ todo = <<>>
    /\ results = <<>>
    /\ analyzed = 0
    /\ writes = 0
    /\ progress = [given |-> FALSE, calls |-> <<>>]

\* max_retries: int = 5
DefaultMaxRetries == 5

\* "API 호출 실패: "
CallFailed == <<"E_API", " ", "K_hochul", " ", "K_silpae", ":", " ">>

\* "API 호출에 최종 실패했습니다: "
CallFinallyFailed ==
    <<"E_API", " ", "K_hochure", " ", "K_choejong", " ", "K_silpaehaet", "K_seumnida",
      ":", " ">>

\* "AI 응답이 비어 있습니다."
EmptyReplyText == <<"E_AI", " ", "K_eungdabi", " ", "K_bieo", " ", "K_it", "K_seumnida", ".">>

\* "AI 응답이 dict가 아님 (type=<name>)"
NotDictText(v) ==
    <<"E_AI", " ", "K_eungdabi", " ", "E_dict", "K_ga", " ", "K_anim", " ", "(", "E_type",
      "=", v.t, ")">>

\* {"suspicion_score": 5, "content_typo_report": message, the other reports ""}, as a reply
ErrorReply(message) == Reply(VInt(5), message, <<>>, <<>>)

\* {"suspicion_score": 1, and the three reports ""}: the result of a text that is empty
DefaultFinal == Result(VInt(1), VStr(<<>>), VStr(<<>>), VStr(<<>>))

\* a key the returned dict does not have
Absent == [t |-> "absent"]

\* "\n".join(t for t in [plain, md] if t)
JoinTexts(plain, md) ==
    IF Empty(plain) THEN md ELSE IF Empty(md) THEN plain ELSE plain \o <<"NL">> \o md

en_text == JoinTexts(row.en_plain, row.en_md)
ko_text == JoinTexts(row.ko_plain, row.ko_md)

\* the text of the language under review
Text == IF side = "en" THEN en_text ELSE ko_text

\* the texts of a scenario, as analyze_row_with_both_langs reads them from the row
RowOf(sc) ==
    [en_plain |-> strip(sc.en_plain), en_md |-> strip(sc.en_md),
     ko_plain |-> strip(sc.ko_plain), ko_md |-> strip(sc.ko_md)]

\* the lines of a scenario the model may reply with
LinesOf(sc) == [en |-> sc.en_lines, ko |-> sc.ko_lines]

\* the one text app.py reviews: the plain text of language s, and no other
TextOf(sc, s) ==
    [en |-> IF s = "en" THEN sc.en_plain ELSE <<>>,
     ko |-> IF s = "ko" THEN sc.ko_plain ELSE <<>>]

-----------------------------------------------------------------------------
(* analyze_text_with_gemini: the call of the language model and its retries *)

\* wait_time = 5 * (attempt + 1)
WaitBase == 5

\* passage_ai_eng.py: wait_time = 10 * (attempt + 1)
PassageWaitBase == 10

WaitBaseOf(m) == IF m = "passage_ai_eng" THEN PassageWaitBase ELSE WaitBase

\* the text in front of str(last_error) in the record of the last failure
FailedPrefix(m) == IF m = "passage_ai_eng" THEN CallFinallyFailed ELSE CallFailed

\* json.loads gave v: app.py hands back a dict only, the two others hand back v
Returned(m, v) == IF m = "app" /\ v.t # "dict" THEN ErrorReply(NotDictText(v)) ELSE v

\* the replies the model may give for the text under review
Replies == IF side = "en" THEN EnReplies(reply_lines.en) ELSE KoReplies(reply_lines.ko)

\* raw_en = ... / raw_ko = ...
SetRaw(v) ==
    /\ raw_en' = IF side = "en" THEN v ELSE raw_en
    /\ raw_ko' = IF side = "ko" THEN v ELSE raw_ko

\* The attempt fails and is not the last one: the loop sleeps and goes on.
CallFails ==
    /\ pc = "call"
    /\ attempt < max_retries - 1
    /\ \E k \in FailKinds :
         /\ ~(impl = "app" /\ k = "empty")
         /\ last_error' = VStr(ErrText(k))
    /\ waits' = Append(waits, WaitBaseOf(impl) * (attempt + 1))
    /\ attempt' = attempt + 1
    /\ UNCHANGED << impl, pc, side, row, reply_lines, max_retries, exhausted, raw_en, raw_ko,
                    final_en, final_ko, given, filtered, out >>
    /\ UNCHANGED batch

\* The last attempt fails: no sleep, the record of the failure is returned.
CallFailsLast ==
    /\ pc = "call"
    /\ attempt = max_retries - 1
    /\ \E k \in FailKinds :
         /\ ~(impl = "app" /\ k = "empty")
         /\ last_error' = VStr(ErrText(k))
         /\ SetRaw(ErrorReply(FailedPrefix(impl) \o ErrText(k)))
    /\ attempt' = attempt + 1
    /\ exhausted' = exhausted \cup {side}
    /\ pc' = "validate"
    /\ UNCHANGED << impl, side, row, reply_lines, max_retries, waits, final_en, final_ko,
                    given, filtered, out >>
    /\ UNCHANGED batch

\* The attempt gets a text that decodes: the call returns.
CallReturns ==
    /\ pc = "call"
    /\ attempt < max_retries
    /\ \E v \in Replies : SetRaw(Returned(impl, v))
    /\ attempt' = attempt + 1
    /\ pc' = "validate"
    /\ UNCHANGED << impl, side, row, reply_lines, max_retries, last_error, waits, exhausted,
                    final_en, final_ko, given, filtered, out >>
    /\ UNCHANGED batch

\* app.py: the attempt gets an empty text, and the call returns a record of that.
CallEmpty ==
    /\ pc = "call"
    /\ impl = "app"
    /\ attempt < max_retries
    /\ SetRaw(ErrorReply(EmptyReplyText))
    /\ attempt' = attempt + 1
    /\ pc' = "validate"
    /\ UNCHANGED << impl, side, row, reply_lines, max_retries, last_error, waits, exhausted,
                    final_en, final_ko, given, filtered, out >>
    /\ UNCHANGED batch

\* max_retries = 0: the loop body never runs.  sheet_review.py and app.py return the
\* record of the failure with str(None); passage_ai_eng.py falls off its end.
CallNoAttempt ==
    /\ pc = "call"
    /\ max_retries = 0
    /\ SetRaw(IF impl = "passage_ai_eng" THEN VNone
              ELSE ErrorReply(CallFailed \o PyStr(VNone)))
    /\ pc' = "validate"
    /\ UNCHANGED << impl, side, row, reply_lines, max_retries, attempt, last_error, waits,
                    exhausted, final_en, final_ko, given, filtered, out >>
    /\ UNCHANGED batch

\* the frame of the call is gone once its caller goes on
CallLocalsGone ==
    /\ attempt' = 0
    /\ last_error' = VNone
    /\ waits' = <<>>

-----------------------------------------------------------------------------
(* sheet_review.py: analyze_row_with_both_langs                            *)

\* what the entry point leaves behind when an exception escapes it
Escapes ==
    /\ pc' = "raised"
    /\ out' = Raised

\* the lines of a report field, stripped (none when the field is no str)
ReportLines(v) == IF v.t = "str" THEN StripAll(splitlines(v.s)) ELSE <<>>

\* max(a, b)
Max(a, b) == IF a >= b THEN a ELSE b

\* if not en_text / if not ko_text: no call, the default result
RowSkip ==
    /\ impl = "sheet_review"
    /\ pc = "begin"
    /\ Empty(Text)
    /\ IF side = "en"
       THEN final_en' = DefaultFinal /\ side' = "ko" /\ pc' = "begin"
                                     /\ UNCHANGED final_ko
       ELSE final_ko' = DefaultFinal /\ pc' = "split" /\ UNCHANGED << side, final_en >>
    /\ UNCHANGED << impl, row, reply_lines, max_retries, attempt, last_error, waits, exhausted,
                    raw_en, raw_ko, given, filtered, out >>
    /\ UNCHANGED batch

\* if en_text / if ko_text: the prompt is built and the call starts
RowCall ==
    /\ impl = "sheet_review"
    /\ pc = "begin"
    /\ ~Empty(Text)
    /\ pc' = "call"
    /\ UNCHANGED << impl, side, row, reply_lines, max_retries, attempt, last_error, waits,
                    exhausted, raw_en, raw_ko, final_en, final_ko, given, filtered, out >>
    /\ UNCHANGED batch

\* the normalizer raised, or its result res is kept as final_en / final_ko
Validated(res, next) ==
    IF res.raised
    THEN Escapes /\ UNCHANGED << final_en, final_ko >>
    ELSE /\ final_en' = IF side = "en" THEN res ELSE final_en
         /\ final_ko' = IF side = "ko" THEN res ELSE final_ko
         /\ pc' = next
         /\ UNCHANGED out

\* final_en = validate_and_clean_analysis(raw_en), and the same for Korean
RowValidate ==
    /\ impl = "sheet_review"
    /\ pc = "validate"
    /\ Validated(validate_and_clean_analysis(IF side = "en" THEN raw_en ELSE raw_ko),
                 "sanitize")
    /\ CallLocalsGone
    /\ UNCHANGED << impl, side, row, reply_lines, max_retries, exhausted, raw_en, raw_ko,
                    given, filtered >>
    /\ UNCHANGED batch

\* sanitize_report(en_text, final_en.get("content_typo_report", "") or "") and
\* sanitize_report(ko_text, final_ko.get("translated_typo_report", "") or "");
\* a report that is no str has no splitlines
RowSanitize ==
    /\ impl = "sheet_review"
    /\ pc = "sanitize"
    /\ LET report == IF side = "en" THEN Or(final_en.content_typo_report, VStr(<<>>))
                     ELSE Or(final_ko.translated_typo_report, VStr(<<>>))
       IN  IF report.t # "str"
           THEN Escapes /\ UNCHANGED << given, filtered >>
           ELSE /\ given' = report.s
                /\ filtered' = sanitize_report(Text, report.s)
                /\ pc' = IF side = "en" THEN "sentence" ELSE "final"
                /\ UNCHANGED out
    /\ UNCHANGED << impl, side, row, reply_lines, max_retries, attempt, last_error, waits,
                    exhausted, raw_en, raw_ko, final_en, final_ko >>
    /\ UNCHANGED batch

\* filtered_ko = ensure_final_punctuation_error(ko_text, filtered_ko)
RowFinal ==
    /\ impl = "sheet_review"
    /\ pc = "final"
    /\ filtered' = ensure_final_punctuation_error(ko_text, filtered)
    /\ pc' = "sentence"
    /\ UNCHANGED << impl, side, row, reply_lines, max_retries, attempt, last_error, waits,
                    exhausted, raw_en, raw_ko, final_en, final_ko, given, out >>
    /\ UNCHANGED batch

\* ensure_sentence_end_punctuation; for English this ends the branch:
\* final_en["content_typo_report"] = filtered_en
RowSentence ==
    /\ impl = "sheet_review"
    /\ pc = "sentence"
    /\ filtered' = ensure_sentence_end_punctuation(Text, filtered)
    /\ IF side = "en"
       THEN /\ final_en' = [final_en EXCEPT !.content_typo_report = VStr(filtered')]
            /\ side' = "ko"
            /\ pc' = "begin"
       ELSE /\ pc' = "dedup"
            /\ UNCHANGED << side, final_en >>
    /\ UNCHANGED << impl, row, reply_lines, max_retries, attempt, last_error, waits, exhausted,
                    raw_en, raw_ko, final_ko, given, out >>
    /\ UNCHANGED batch

\* filtered_ko = dedup_korean_bullet_lines(filtered_ko);
\* final_ko["translated_typo_report"] = filtered_ko
RowDedup ==
    /\ impl = "sheet_review"
    /\ pc = "dedup"
    /\ filtered' = dedup_korean_bullet_lines(filtered)
    /\ final_ko' = [final_ko EXCEPT !.translated_typo_report = VStr(filtered')]
    /\ pc' = "split"
    /\ UNCHANGED << impl, side, row, reply_lines, max_retries, attempt, last_error, waits,
                    exhausted, raw_en, raw_ko, final_en, given, out >>
    /\ UNCHANGED batch

\* a combined result whose markdown_report also takes the markdown_report field of the
\* normalized Korean reply
CombinedWithField(en, ko) ==
    /\ final_en' = [final_en EXCEPT !.content_typo_report = VStr(en[1])]
    /\ final_ko' = [final_ko EXCEPT !.translated_typo_report = VStr(ko[1])]
    /\ out' = Result(VInt(Max(final_en.suspicion_score.n, final_ko.suspicion_score.n)),
                     VStr(en[1]), VStr(ko[1]),
                     VStr(JoinTexts(JoinTexts(en[2], ko[2]),
                                    Or(final_ko.markdown_report, VStr(<<>>)).s)))

\* combined_final, from the two halves en and ko of the split
Combined(en, ko) ==
    /\ final_en' = [final_en EXCEPT !.content_typo_report = VStr(en[1])]
    /\ final_ko' = [final_ko EXCEPT !.translated_typo_report = VStr(ko[1])]
    /\ out' = Result(VInt(Max(final_en.suspicion_score.n, final_ko.suspicion_score.n)),
                     VStr(en[1]), VStr(ko[1]), VStr(JoinTexts(en[2], ko[2])))

\* the reports are split by source, the markdown parts joined, and combined_final built
RowCombine ==
    /\ impl = "sheet_review"
    /\ pc = "split"
    /\ Combined(split_report_by_source(Or(final_en.content_typo_report, VStr(<<>>)).s,
                                       row.en_plain, row.en_md),
                split_report_by_source(Or(final_ko.translated_typo_report, VStr(<<>>)).s,
                                       row.ko_plain, row.ko_md))
    /\ pc' = "done"
    /\ UNCHANGED << impl, side, row, reply_lines, max_retries, attempt, last_error, waits,
                    exhausted, raw_en, raw_ko, given, filtered >>
    /\ UNCHANGED batch

-----------------------------------------------------------------------------
(* app.py: review_english_text and review_korean_text                      *)

\* the dict review_english_text returns: "score" and "content_typo_report" (and "raw")
EnglishReviewed(cleaned) ==
    IF cleaned.raised
    THEN Escapes /\ UNCHANGED final_en
    ELSE /\ final_en' = cleaned
         /\ out' = Result(cleaned.suspicion_score, cleaned.content_typo_report,
                          Absent, Absent)
         /\ pc' = "done"

\* review_english_text after the call: the normalizer, then the dict
AppReviewEnglish ==
    /\ impl = "app"
    /\ pc = "validate"
    /\ side = "en"
    /\ EnglishReviewed(app_validate_and_clean_analysis(raw_en, VStr(en_text)))
    /\ CallLocalsGone
    /\ UNCHANGED << impl, side, row, reply_lines, max_retries, exhausted, raw_en, raw_ko,
                    final_ko, given, filtered >>
    /\ UNCHANGED batch

\* cleaned = validate_and_clean_analysis(raw)
AppValidate ==
    /\ impl = "app"
    /\ pc = "validate"
    /\ side = "ko"
    /\ Validated(app_validate_and_clean_analysis(raw_ko, VNone), "ground")
    /\ CallLocalsGone
    /\ UNCHANGED << impl, side, row, reply_lines, max_retries, exhausted, raw_en, raw_ko,
                    given, filtered >>
    /\ UNCHANGED batch

\* drop_lines_not_in_source(korean_text, cleaned.get("translated_typo_report", "") or "")
AppGround ==
    /\ impl = "app"
    /\ pc = "ground"
    /\ LET report == Or(final_ko.translated_typo_report, VStr(<<>>))
       IN  IF report.t # "str"
           THEN Escapes /\ UNCHANGED << given, filtered >>
           ELSE /\ given' = report.s
                /\ filtered' = app_drop_lines_not_in_source(ko_text, report.s)
                /\ pc' = "period"
                /\ UNCHANGED out
    /\ UNCHANGED << impl, side, row, reply_lines, max_retries, attempt, last_error, waits,
                    exhausted, raw_en, raw_ko, final_en, final_ko >>
    /\ UNCHANGED batch

\* filtered = drop_false_korean_period_errors(filtered)
AppPeriod ==
    /\ impl = "app"
    /\ pc = "period"
    /\ filtered' = drop_false_korean_period_errors(filtered)
    /\ pc' = "final"
    /\ UNCHANGED << impl, side, row, reply_lines, max_retries, attempt, last_error, waits,
                    exhausted, raw_en, raw_ko, final_en, final_ko, given, out >>
    /\ UNCHANGED batch

\* filtered = ensure_final_punctuation_error(korean_text, filtered)
AppFinal ==
    /\ impl = "app"
    /\ pc = "final"
    /\ filtered' = app_ensure_final_punctuation_error(ko_text, filtered)
    /\ pc' = "sentence"
    /\ UNCHANGED << impl, side, row, reply_lines, max_retries, attempt, last_error, waits,
                    exhausted, raw_en, raw_ko, final_en, final_ko, given, out >>
    /\ UNCHANGED batch

\* filtered = ensure_sentence_end_punctuation(korean_text, filtered)
AppSentence ==
    /\ impl = "app"
    /\ pc = "sentence"
    /\ filtered' = app_ensure_sentence_end_punctuation(ko_text, filtered)
    /\ pc' = "dedup"
    /\ UNCHANGED << impl, side, row, reply_lines, max_retries, attempt, last_error, waits,
                    exhausted, raw_en, raw_ko, final_en, final_ko, given, out >>
    /\ UNCHANGED batch

\* filtered = dedup_korean_bullet_lines(filtered), and the dict that is returned
AppDedup ==
    /\ impl = "app"
    /\ pc = "dedup"
    /\ filtered' = app_dedup_korean_bullet_lines(filtered)
    /\ out' = Result(final_ko.suspicion_score, final_ko.content_typo_report,
                     VStr(filtered'), final_ko.markdown_report)
    /\ pc' = "done"
    /\ UNCHANGED << impl, side, row, reply_lines, max_retries, attempt, last_error, waits,
                    exhausted, raw_en, raw_ko, final_en, final_ko, given >>
    /\ UNCHANGED batch

-----------------------------------------------------------------------------
(* The review of one row or of one text                                    *)

\* nothing has been called, normalized or filtered yet
Fresh ==
    /\ attempt = 0
    /\ last_error = VNone
    /\ waits = <<>>
    /\ exhausted = {}
    /\ raw_en = VNone
    /\ raw_ko = VNone
    /\ final_en = VNone
    /\ final_ko = VNone
    /\ given = <<>>
    /\ filtered = <<>>
    /\ out = VNone

\* analyze_row_with_both_langs(row) is called with a row of the sheet
InitRow ==
    /\ impl = "sheet_review"
    /\ \E i \in 1..Len(Scenarios) : row = RowOf(Scenarios[i]) /\ reply_lines = LinesOf(Scenarios[i])
    /\ side = "en"
    /\ pc = "begin"
    /\ max_retries = DefaultMaxRetries
    /\ Fresh
    /\ NoBatch

\* review_korean_text(text) or review_english_text(text) is called with a text that
\* is not blank (app.py:651, app.py:709)
InitApp ==
    /\ impl = "app"
    /\ \E i \in 1..Len(Scenarios), s \in {"en", "ko"} :
         /\ ~Blank(TextOf(Scenarios[i], s)[s])
         /\ row = [en_plain |-> TextOf(Scenarios[i], s).en, en_md |-> <<>>,
                   ko_plain |-> TextOf(Scenarios[i], s).ko, ko_md |-> <<>>]
         /\ reply_lines = LinesOf(Scenarios[i])
         /\ side = s
    /\ pc = "call"
    /\ max_retries = DefaultMaxRetries
    /\ Fresh
    /\ NoBatch

Init == InitRow \/ InitApp

Next ==
    \/ CallFails
    \/ CallFailsLast
    \/ CallReturns
    \/ CallEmpty
    \/ RowSkip
    \/ RowCall
    \/ RowValidate
    \/ RowSanitize
    \/ RowFinal
    \/ RowSentence
    \/ RowDedup
    \/ RowCombine
    \/ AppReviewEnglish
    \/ AppValidate
    \/ AppGround
    \/ AppPeriod
    \/ AppFinal
    \/ AppSentence
    \/ AppDedup

Spec == Init /\ [][Next]_vars

-----------------------------------------------------------------------------
(* The call of the language model on its own, for every max_retries        *)

\* the largest max_retries a caller passes
MaxRetries == 5

\* analyze_text_with_gemini(prompt, max_retries) of one of the three files is called;
\* the prompt is that of the English text of the third scenario
InitCall ==
    /\ impl \in { "sheet_review", "app", "passage_ai_eng" }
    /\ row = RowOf(Scenarios[3])
    /\ reply_lines = LinesOf(Scenarios[3])
    /\ side = "en"
    /\ pc = "call"
    /\ max_retries \in 0..MaxRetries
    /\ Fresh
    /\ NoBatch

NextCall ==
    \/ CallFails
    \/ CallFailsLast
    \/ CallReturns
    \/ CallEmpty
    \/ CallNoAttempt

SpecCall == InitCall /\ [][NextCall]_vars

-----------------------------------------------------------------------------
(* The normalizer on its own, for replies of every shape                   *)

\* a key the reply does not have
Missing == [t |-> "missing"]

\* a line of the reply, a line that corrects nothing, a line with a forbidden keyword
NormLine == Bullet(<<"c">>, <<"d">>, Typo)
NormSelfEqual == Bullet(<<"a", " ", "b">>, <<"a", " ", "b">>, Typo)
NormStyle == Bullet(<<"c">>, <<"d">>, MoreApt)
\* "오류 없음"
NormFiller == <<"K_oryu", " ", "K_eop", "K_eum">>

\* the values of the four keys of a reply that is a dict
NormFields ==
    [content_typo_report :
        { Missing, VNone, VStr(<<>>), VStr(NormLine), VStr(NormSelfEqual), VStr(NormStyle),
          VInt(7), VList(<<VStr(NormLine)>>), VDict([a |-> VInt(1)]) },
     translated_typo_report :
        { Missing, VNone, VStr(NormLine), VStr(NormFiller), VInt(7),
          VList(<<VStr(NormLine)>>) },
     markdown_report :
        { Missing, VStr(<<>>), VStr(NormLine), VStr(NormStyle), VDict([a |-> VInt(1)]) },
     suspicion_score :
        { Missing, VInt(1), VInt(4), VInt(9), VStr(<<"3">>), VStr(<<"a">>) }]

\* the dict of the keys of a that are not missing
DictOf(a) == VDict([k \in { x \in DOMAIN a : a[x] # Missing } |-> a[k]])

\* replies that are no dict
NonMappings == { VNone, VInt(3), VStr(NormLine), VList(<<>>), VList(<<VStr(NormLine)>>) }

\* replies with the key "ERROR"
ErrorDicts ==
    { VDict([ERROR |-> VDict([message |-> VStr(<<"E_quota">>)])]),
      VDict([ERROR |-> VStr(<<"E_quota">>)]),
      VDict([ERROR |-> VNone]),
      VDict([ERROR |-> VDict([message |-> VStr(<<"E_quota">>)]),
             suspicion_score |-> VInt(2), content_typo_report |-> VStr(NormLine)]),
      VDict([ERROR |-> VDict([message |-> VStr(<<"E_quota">>)]),
             suspicion_score |-> VInt(2), content_typo_report |-> VStr(NormStyle),
             translated_typo_report |-> VStr(NormLine)]) }

NormInputs == { DictOf(a) : a \in NormFields } \cup NonMappings \cup ErrorDicts

\* validate_and_clean_analysis(result) of sheet_review.py, or of app.py without the
\* English text (side "ko") or with it (side "en"), is called with a reply
InitNorm ==
    /\ impl \in { "sheet_review", "app" }
    /\ side \in { "en", "ko" }
    /\ impl = "sheet_review" => side = "ko"
    /\ row = [en_plain |-> Scenarios[3].en_plain, en_md |-> <<>>,
              ko_plain |-> Scenarios[3].ko_plain, ko_md |-> <<>>]
    /\ reply_lines = LinesOf(Scenarios[3])
    /\ pc = "validate"
    /\ max_retries = DefaultMaxRetries
    /\ \E v \in NormInputs :
         /\ raw_en = IF side = "en" THEN v ELSE VNone
         /\ raw_ko = IF side = "ko" THEN v ELSE VNone
    /\ attempt = 0
    /\ last_error = VNone
    /\ waits = <<>>
    /\ exhausted = {}
    /\ final_en = VNone
    /\ final_ko = VNone
    /\ given = <<>>
    /\ filtered = <<>>
    /\ out = VNone
    /\ NoBatch

NextNorm ==
    \/ RowValidate
    \/ AppValidate
    \/ AppReviewEnglish

SpecNorm == InitNorm /\ [][NextNorm]_vars

-----------------------------------------------------------------------------
(* The grounding filter, the filter chain and the punctuation injection on *)
(* their own, for every text and every report of the scenarios             *)

\* the reports a filter is given for the text of language s: the lines of the
\* scenario, in any order and number up to MaxLines
GivenReports(sc, s) == ReportsOf(IF s = "en" THEN sc.en_lines ELSE sc.ko_lines, MaxLines)

\* a filter of sheet_review.py is called with the joined text of a row, or one of
\* app.py with a plain text, and with a report
InitFilter ==
    /\ impl \in { "sheet_review", "app" }
    /\ \E i \in 1..Len(Scenarios), s \in { "en", "ko" } :
         /\ ~Blank(TextOf(Scenarios[i], s)[s])
         /\ row = IF impl = "sheet_review" THEN RowOf(Scenarios[i])
                  ELSE [en_plain |-> TextOf(Scenarios[i], s).en, en_md |-> <<>>,
                        ko_plain |-> TextOf(Scenarios[i], s).ko, ko_md |-> <<>>]
         /\ reply_lines = LinesOf(Scenarios[i])
         /\ side = s
         /\ given \in GivenReports(Scenarios[i], s)
    /\ filtered = given
    /\ pc = "filter"
    /\ max_retries = DefaultMaxRetries
    /\ attempt = 0
    /\ last_error = VNone
    /\ waits = <<>>
    /\ exhausted = {}
    /\ raw_en = VNone
    /\ raw_ko = VNone
    /\ final_en = VNone
    /\ final_ko = VNone
    /\ out = VNone
    /\ NoBatch

\* drop_lines_not_in_source(source_text, report), of the file that runs
FilterGround ==
    /\ pc = "filter"
    /\ filtered' = IF impl = "sheet_review" THEN drop_lines_not_in_source(Text, given)
                   ELSE app_drop_lines_not_in_source(Text, given)
    /\ pc' = "grounded"
    /\ UNCHANGED << impl, side, row, reply_lines, max_retries, attempt, last_error, waits,
                    exhausted, raw_en, raw_ko, final_en, final_ko, given, out >>
    /\ UNCHANGED batch

\* sanitize_report(original_text, report)
FilterSanitize ==
    /\ pc = "filter"
    /\ impl = "sheet_review"
    /\ filtered' = sanitize_report(Text, given)
    /\ pc' = "sanitized"
    /\ UNCHANGED << impl, side, row, reply_lines, max_retries, attempt, last_error, waits,
                    exhausted, raw_en, raw_ko, final_en, final_ko, given, out >>
    /\ UNCHANGED batch

\* the injection as the Korean pipeline of the file runs it:
\* ensure_final_punctuation_error, then ensure_sentence_end_punctuation
FilterInject ==
    /\ pc = "filter"
    /\ side = "ko"
    /\ filtered' =
         IF impl = "sheet_review"
         THEN ensure_sentence_end_punctuation(Text,
                ensure_final_punctuation_error(Text, given))
         ELSE app_ensure_sentence_end_punctuation(Text,
                app_ensure_final_punctuation_error(Text, given))
    /\ pc' = "injected"
    /\ UNCHANGED << impl, side, row, reply_lines, max_retries, attempt, last_error, waits,
                    exhausted, raw_en, raw_ko, final_en, final_ko, given, out >>
    /\ UNCHANGED batch

NextFilter ==
    \/ FilterGround
    \/ FilterSanitize
    \/ FilterInject

SpecFilter == InitFilter /\ [][NextFilter]_vars

-----------------------------------------------------------------------------
(* One function at a time: each filter, punctuation rule, the dedup and the *)
(* source split, called on its own and, where it may be run again, on its   *)
(* own result                                                               *)

\* "사과", "apple" and a fragment that mixes the two scripts
Sagwa == <<"h_sa", "h_gwa">>
Apple == <<"a", "p", "p", "l", "e">>

\* "- '했고.' → '했고': 불필요한 마침표", and the like for "역할을 했고." and "역할을"
NeedlessHaetgo == Bullet(<<"h_haet", "h_go", ".">>, <<"h_haet", "h_go">>, Needless)
NeedlessYeokhal ==
    Bullet(<<"h_yeok", "h_hal", "h_eul", " ", "h_haet", "h_go", ".">>,
           <<"h_yeok", "h_hal", "h_eul", " ", "h_haet", "h_go">>, Needless)
NeedlessEul == Bullet(<<"h_yeok", "h_hal", "h_eul">>, <<"h_yeok", "h_hal">>, Needless)

\* the most lines a report given to one function holds
MaxUnitLines == 3

\* A case: the plain and the markdown text, the lines a report is made of, and
\* how many lines fewer than MaxUnitLines its reports hold
UnitCases ==
    << \* 1: no final mark in the text; reports with and without a word on periods
       [plain |-> TextGeu, md |-> <<>>, fewer |-> 1,
        lines |-> << LineGeu,
                     Typo,
                     SentenceLine,
                     FinalLine,
                     Bullet(<<"h_gat", "h_da">>, <<"h_gat", "h_da", ".">>, NoPeriod) >>],
       \* 2: "a b" and "a b c"; fragments of one script, of two, and edits of every size
       [plain |-> <<"a", " ", "b">>, md |-> <<"a", " ", "b", " ", "c">>, fewer |-> 1,
        lines |-> << Bullet(<<"c">>, <<"d">>, Typo),
                     Bullet(<<"a">>, <<"a", "b">>, Typo),
                     Bullet(Sagwa, Apple, Typo),
                     Bullet(Apple, Sagwa, Typo),
                     Bullet(Sagwa, Sagwa \o <<"h_reul">>, Typo),
                     Bullet(<<"a">> \o Sagwa, <<"b">> \o Sagwa, Typo),
                     Bullet(<<"a", " ", "b">>, <<"a", " ", "b", " ", "c", "d">>, Typo),
                     Bullet(<<"a", "TAB", "b">>, <<"a", "b", "c", "d", "d">>, Typo),
                     Bullet(<<"c">>, <<"c", "d", "d", "d">>, Typo),
                     <<>> >>],
       \* 3: claims of a needless period on fragments that hold one another
       [plain |-> <<"h_yeok", "h_hal", "h_eul", " ", "h_haet", "h_go", ".", " ", "h_kkeut">>,
        md |-> <<"h_yeok", "h_hal", "h_eul", " ", "h_haet", "h_go", ".", " ", "h_kkeut", ".">>,
        fewer |-> 0,
        lines |-> << NeedlessEul,
                     NeedlessHaetgo,
                     NeedlessYeokhal,
                     Bullet(<<"h_haet", "h_go", ".">>, <<"h_haet", "h_go">>, Typo) >>],
       \* 4: "a b d" and "a b c": a fragment of each text alone, and a free line
       [plain |-> <<"a", " ", "b", " ", "d">>, md |-> <<"a", " ", "b", " ", "c">>,
        fewer |-> 0,
        lines |-> << Bullet(<<"d">>, <<"c">>, Typo),
                     Bullet(<<"c">>, <<"d">>, Typo),
                     Bullet(<<"a", " ", "b">>, <<"a", "b">>, Typo),
                     Typo >>] >>

\* one function is called with the texts and a report of a case
InitUnit ==
    /\ impl \in { "sheet_review", "app" }
    /\ \E i \in 1..Len(UnitCases) :
         /\ row = [en_plain |-> <<>>, en_md |-> <<>>,
                   ko_plain |-> UnitCases[i].plain, ko_md |-> UnitCases[i].md]
         /\ reply_lines = [en |-> <<>>, ko |-> UnitCases[i].lines]
         /\ given \in ReportsOf(UnitCases[i].lines, MaxUnitLines - UnitCases[i].fewer)
    /\ side = "ko"
    /\ filtered = given
    /\ pc = "filter"
    /\ max_retries = DefaultMaxRetries
    /\ attempt = 0
    /\ last_error = VNone
    /\ waits = <<>>
    /\ exhausted = {}
    /\ raw_en = VNone
    /\ raw_ko = VNone
    /\ final_en = VNone
    /\ final_ko = VNone
    /\ out = VNone
    /\ NoBatch

\* ensure_final_punctuation_error of the file that runs
EnsureFinal(text, report) ==
    IF impl = "sheet_review" THEN ensure_final_punctuation_error(text, report)
    ELSE app_ensure_final_punctuation_error(text, report)

\* ensure_sentence_end_punctuation of the file that runs
EnsureSentence(text, report) ==
    IF impl = "sheet_review" THEN ensure_sentence_end_punctuation(text, report)
    ELSE app_ensure_sentence_end_punctuation(text, report)

\* dedup_korean_bullet_lines of the file that runs
Dedup(report) ==
    IF impl = "sheet_review" THEN dedup_korean_bullet_lines(report)
    ELSE app_dedup_korean_bullet_lines(report)

\* ensure_final_punctuation_error(text, report), on a report or on its own result
UnitFinal ==
    /\ pc \in { "filter", "final_1" }
    /\ filtered' = EnsureFinal(Text, filtered)
    /\ pc' = IF pc = "filter" THEN "final_1" ELSE "final_2"
    /\ UNCHANGED << impl, side, row, reply_lines, max_retries, attempt, last_error, waits,
                    exhausted, raw_en, raw_ko, final_en, final_ko, given, out >>
    /\ UNCHANGED batch

\* ensure_sentence_end_punctuation(text, report), on a report or on its own result
UnitSentence ==
    /\ pc \in { "filter", "sentence_1" }
    /\ filtered' = EnsureSentence(Text, filtered)
    /\ pc' = IF pc = "filter" THEN "sentence_1" ELSE "sentence_2"
    /\ UNCHANGED << impl, side, row, reply_lines, max_retries, attempt, last_error, waits,
                    exhausted, raw_en, raw_ko, final_en, final_ko, given, out >>
    /\ UNCHANGED batch

\* dedup_korean_bullet_lines(report), on a report or on its own result
UnitDedup ==
    /\ pc \in { "filter", "dedup_1" }
    /\ filtered' = Dedup(filtered)
    /\ pc' = IF pc = "filter" THEN "dedup_1" ELSE "dedup_2"
    /\ UNCHANGED << impl, side, row, reply_lines, max_retries, attempt, last_error, waits,
                    exhausted, raw_en, raw_ko, final_en, final_ko, given, out >>
    /\ UNCHANGED batch

\* drop_language_switch(report)
UnitSwitch ==
    /\ pc = "filter"
    /\ impl = "sheet_review"
    /\ filtered' = drop_language_switch(given)
    /\ pc' = "switch"
    /\ UNCHANGED << impl, side, row, reply_lines, max_retries, attempt, last_error, waits,
                    exhausted, raw_en, raw_ko, final_en, final_ko, given, out >>
    /\ UNCHANGED batch

\* drop_large_edits(report)
UnitLarge ==
    /\ pc = "filter"
    /\ impl = "sheet_review"
    /\ filtered' = drop_large_edits(given)
    /\ pc' = "large"
    /\ UNCHANGED << impl, side, row, reply_lines, max_retries, attempt, last_error, waits,
                    exhausted, raw_en, raw_ko, final_en, final_ko, given, out >>
    /\ UNCHANGED batch

\* split_report_by_source(report, plain_text, md_text): out holds the two buckets
UnitSplit ==
    /\ pc = "filter"
    /\ impl = "sheet_review"
    /\ out' = split_report_by_source(given, row.ko_plain, row.ko_md)
    /\ pc' = "split"
    /\ UNCHANGED << impl, side, row, reply_lines, max_retries, attempt, last_error, waits,
                    exhausted, raw_en, raw_ko, final_en, final_ko, given, filtered >>
    /\ UNCHANGED batch

NextUnit ==
    \/ UnitFinal
    \/ UnitSentence
    \/ UnitDedup
    \/ UnitSwitch
    \/ UnitLarge
    \/ UnitSplit

SpecUnit == InitUnit /\ [][NextUnit]_vars

-----------------------------------------------------------------------------
(* The batch run over a worksheet: run_sheet_review of sheet_review.py and *)
(* main of passage_ai_eng.py.  A data row of the sheet is its STATUS cell,  *)
(* its SCORE cell, its three report cells taken together, and the number of *)
(* times its cells were written.  The analysis of one row is one step: it   *)
(* returns a result or it raises.                                           *)

\* the most data rows of a worksheet
MaxRows == 3

\* "1. AI검수요청"
ReviewRequested == "1. AI review requested"

\* "2. AI검수완료" in sheet_review.py, "2.AI검수완료" in passage_ai_eng.py
ReviewDone(m) == IF m = "passage_ai_eng" THEN "2.AI review done" ELSE "2. AI review done"

\* what a STATUS cell may hold before a run: the request, the mark of an earlier
\* run, nothing
Statuses == { ReviewRequested, ReviewDone("sheet_review"), "" }

\* a data row nothing was written to
DataRow(status) == [STATUS |-> status, SCORE |-> "", REPORTS |-> "", hits |-> 0]

\* the worksheets: with or without a result column missing from the header row, and
\* with up to MaxRows data rows
Sheets ==
    { [headers |-> h, rows |-> [i \in 1..n |-> DataRow(st[i])]] :
        h \in BOOLEAN, n \in 0..MaxRows, st \in [1..MaxRows -> Statuses] }

\* what the analysis of a row gives for the cells, as sanitize_cell writes them:
\* nothing found, findings, the record of a failed call
CellResults ==
    { [SCORE |-> "1", REPORTS |-> ""],
      [SCORE |-> "3", REPORTS |-> "findings"],
      [SCORE |-> "5", REPORTS |-> "error"] }

\* df["sheet_row_index"] = df.index + 2: the sheet row of the i-th data row (row 1 is
\* the header row)
SheetRowIndex(i) == i + 1

\* the data row of a sheet row
DataRowOf(ridx) == ridx - 1

\* a selection that takes every record for a target
TargetsOfEveryRow(d, i) == [k \in 1..Len(d) |-> SheetRowIndex(k)]

\* targets = df[df[STATUS_COL] == "1. AI검수요청"]: the sheet rows of the records of d
\* that carry the request, in the order of the sheet
RECURSIVE Targets(_, _)
Targets(d, i) ==
    IF i > Len(d) THEN <<>>
    ELSE IF d[i].STATUS = ReviewRequested
    THEN <<SheetRowIndex(i)>> \o Targets(d, i + 1)
    ELSE Targets(d, i + 1)

\* how an exception ends the run: run_sheet_review lets it out, main catches and
\* prints it
Failed(m) == IF m = "passage_ai_eng" THEN "returned" ELSE "raised"

\* run_sheet_review or main is called on a worksheet
InitBatch ==
    /\ impl \in { "sheet_review", "passage_ai_eng" }
    /\ pc = "open"
    /\ sheet \in Sheets
    /\ df = <<>>
    /\ todo = <<>>
    /\ results = <<>>
    /\ analyzed = 0
    /\ writes = 0
    /\ progress \in { [given |-> g, calls |-> <<>>] : g \in BOOLEAN }
    /\ impl = "passage_ai_eng" => ~progress.given
    /\ side = "en"
    /\ row = [en_plain |-> <<>>, en_md |-> <<>>, ko_plain |-> <<>>, ko_md |-> <<>>]
    /\ reply_lines = [en |-> <<>>, ko |-> <<>>]
    /\ max_retries = DefaultMaxRetries
    /\ Fresh

\* the spreadsheet or the worksheet is not found
BatchNotFound ==
    /\ pc = "open"
    /\ pc' = Failed(impl)
    /\ UNCHANGED << impl, side, row, reply_lines, max_retries, attempt, last_error, waits,
                    exhausted, raw_en, raw_ko, final_en, final_ko, given, filtered, out,
                    batch >>

\* get_all_records and the selection of the targets: a sheet without a data row gives
\* a frame without the STATUS column (KeyError); without a target the run returns
BatchRead ==
    /\ pc = "open"
    /\ df' = [i \in 1..Len(sheet.rows) |-> [STATUS |-> sheet.rows[i].STATUS]]
    /\ todo' = Targets(df', 1)
    /\ pc' = IF Len(sheet.rows) = 0 THEN Failed(impl)
             ELSE IF todo' = <<>> THEN "returned"
             ELSE "loop"
    /\ UNCHANGED << impl, side, row, reply_lines, max_retries, attempt, last_error, waits,
                    exhausted, raw_en, raw_ko, final_en, final_ko, given, filtered, out,
                    sheet, results, analyzed, writes, progress >>

\* a call of the progress callback that reports the round before its analysis
ProgressCall == [done |-> Len(results) + 1, total |-> Len(results) + Len(todo)]

\* the head of a round of the loop: run_sheet_review calls progress_callback(i,
\* total_targets) when it has one; main of passage_ai_eng.py has none
BatchProgress ==
    /\ pc = "loop"
    /\ todo # <<>>
    /\ progress' = IF progress.given
                   THEN [progress EXCEPT !.calls = Append(@, ProgressCall)]
                   ELSE progress
    /\ pc' = "analyze"
    /\ UNCHANGED << impl, side, row, reply_lines, max_retries, attempt, last_error, waits,
                    exhausted, raw_en, raw_ko, final_en, final_ko, given, filtered, out,
                    sheet, df, todo, results, analyzed, writes >>

\* the data row i after the cells of the results for its sheet row are written
Updated(rows, res, i) ==
    IF \E k \in 1..Len(res) : DataRowOf(res[k].sheet_row_index) = i
    THEN LET k == CHOOSE k \in 1..Len(res) : DataRowOf(res[k].sheet_row_index) = i
         IN  [STATUS |-> res[k].STATUS, SCORE |-> res[k].SCORE, REPORTS |-> res[k].REPORTS,
              hits |-> rows[i].hits + 1]
    ELSE rows[i]

\* a round of the loop that writes the cells of its row at once
BatchAnalyzeAndWrite ==
    /\ pc = "analyze"
    /\ analyzed' = analyzed + 1
    /\ \E r \in CellResults :
         results' = Append(results,
                           [sheet_row_index |-> Head(todo), SCORE |-> r.SCORE,
                            REPORTS |-> r.REPORTS, STATUS |-> ReviewDone(impl)])
    /\ sheet' = [sheet EXCEPT !.rows =
                    [i \in 1..Len(sheet.rows) |->
                        Updated(sheet.rows, <<results'[Len(results')]>>, i)]]
    /\ writes' = writes + 1
    /\ todo' = Tail(todo)
    /\ pc' = IF Tail(todo) = <<>> THEN "flush" ELSE "loop"
    /\ UNCHANGED << impl, side, row, reply_lines, max_retries, attempt, last_error, waits,
                    exhausted, raw_en, raw_ko, final_en, final_ko, given, filtered, out,
                    df, progress >>

\* one round of the loop: the next target is analysed and its result is kept
BatchAnalyze ==
    /\ pc = "analyze"
    /\ analyzed' = analyzed + 1
    /\ \E r \in CellResults :
         results' = Append(results,
                           [sheet_row_index |-> Head(todo), SCORE |-> r.SCORE,
                            REPORTS |-> r.REPORTS, STATUS |-> ReviewDone(impl)])
    /\ todo' = Tail(todo)
    /\ pc' = IF Tail(todo) = <<>> THEN "flush" ELSE "loop"
    /\ UNCHANGED << impl, side, row, reply_lines, max_retries, attempt, last_error, waits,
                    exhausted, raw_en, raw_ko, final_en, final_ko, given, filtered, out,
                    sheet, df, writes, progress >>

\* the analysis of the next target raises
BatchAnalyzeRaises ==
    /\ pc = "analyze"
    /\ analyzed' = analyzed + 1
    /\ pc' = Failed(impl)
    /\ UNCHANGED << impl, side, row, reply_lines, max_retries, attempt, last_error, waits,
                    exhausted, raw_en, raw_ko, final_en, final_ko, given, filtered, out,
                    sheet, df, todo, results, writes, progress >>

\* after the loop: the columns are looked up in the header row (ValueError when one
\* is missing), the cells of every result are gathered and written with one
\* update_cells
BatchFlush ==
    /\ pc = "flush"
    /\ IF ~sheet.headers
       THEN /\ pc' = Failed(impl)
            /\ UNCHANGED << sheet, writes >>
       ELSE /\ sheet' = [sheet EXCEPT !.rows =
                            [i \in 1..Len(sheet.rows) |-> Updated(sheet.rows, results, i)]]
            /\ writes' = writes + 1
            /\ pc' = "returned"
    /\ UNCHANGED << impl, side, row, reply_lines, max_retries, attempt, last_error, waits,
                    exhausted, raw_en, raw_ko, final_en, final_ko, given, filtered, out,
                    df, todo, results, analyzed, progress >>

NextBatch ==
    \/ BatchNotFound
    \/ BatchRead
    \/ BatchProgress
    \/ BatchAnalyze
    \/ BatchAnalyzeRaises
    \/ BatchFlush

SpecBatch == InitBatch /\ [][NextBatch]_vars

-----------------------------------------------------------------------------
(* passage_ai_eng.py: validate_and_clean_analysis and the cells main writes *)

\* reports[key] = result.get(key, ''): a null of the reply stays None
PassageRawReports(result) == [k \in ReportKeys |-> Get(result, k, VStr(<<>>))]

\* score = 1 when no report is left, 3 when one is left and the score is 1; the score
\* of the reply is neither converted nor clamped
PassageScore(score, reports) ==
    IF \A k \in ReportKeys : ~Truthy(reports[k]) THEN VInt(1)
    ELSE IF score = VInt(1) THEN VInt(3) ELSE score

PassageNormalized(score, reports) ==
    Result(PassageScore(score, reports), reports["content_typo_report"],
           reports["translated_typo_report"], reports["markdown_report"])

\* the purges look every keyword up with "in": a TypeError on None and on a number
passage_validate_and_clean_analysis(result) ==
    IF result.t # "dict" THEN ErrorResult(NotValidJson)
    ELSE IF \E k \in ReportKeys : ~CanIn(PassageRawReports(result)[k]) THEN Raised
    ELSE PassageNormalized(GetOrNone(result, "suspicion_score"),
                           Purged(PassageRawReports(result)))

\* str(n) of a small integer
IntText(n) ==
    LET digit(k) == CHOOSE d \in Digits : DigitVal(d) = k
    IN  IF n < 0 THEN <<"-", digit(0 - n)>> ELSE <<digit(n)>>

\* sanitize(value) of main: str(value) if value is not None else ""
sanitize(value) ==
    IF value.t = "none" THEN <<>>
    ELSE IF value.t = "int" THEN IntText(value.n)
    ELSE PyStr(value)

\* main has the reply of the model for a target row
InitPassage ==
    /\ impl = "passage_ai_eng"
    /\ side = "ko"
    /\ row = [en_plain |-> <<>>, en_md |-> <<>>, ko_plain |-> Scenarios[3].ko_plain,
              ko_md |-> <<>>]
    /\ reply_lines = [en |-> <<>>, ko |-> <<>>]
    /\ pc = "validate"
    /\ max_retries = DefaultMaxRetries
    /\ raw_en = VNone
    /\ raw_ko \in NormInputs
    /\ attempt = 0
    /\ last_error = VNone
    /\ waits = <<>>
    /\ exhausted = {}
    /\ final_en = VNone
    /\ final_ko = VNone
    /\ given = <<>>
    /\ filtered = <<>>
    /\ out = VNone
    /\ NoBatch

\* final_analysis_result = validate_and_clean_analysis(raw_analysis_result); main
\* catches what it raises, prints it and returns
PassageValidate ==
    /\ impl = "passage_ai_eng"
    /\ pc = "validate"
    /\ LET res == passage_validate_and_clean_analysis(raw_ko)
       IN  IF res.raised
           THEN pc' = "returned" /\ UNCHANGED final_ko
           ELSE pc' = "write" /\ final_ko' = res
    /\ UNCHANGED << impl, side, row, reply_lines, max_retries, attempt, last_error, waits,
                    exhausted, raw_en, raw_ko, final_en, given, filtered, out >>
    /\ UNCHANGED batch

\* the SCORE cell of the row: sanitize(result[SUSPICION_SCORE_COL])
PassageWrite ==
    /\ impl = "passage_ai_eng"
    /\ pc = "write"
    /\ out' = VStr(sanitize(final_ko.suspicion_score))
    /\ pc' = "returned"
    /\ UNCHANGED << impl, side, row, reply_lines, max_retries, attempt, last_error, waits,
                    exhausted, raw_en, raw_ko, final_en, final_ko, given, filtered >>
    /\ UNCHANGED batch

NextPassage ==
    \/ PassageValidate
    \/ PassageWrite

SpecPassage == InitPassage /\ [][NextPassage]_vars

-----------------------------------------------------------------------------
(* The punctuation checks and the period-claim filter on every short text  *)

\* the longest text
MaxTextLen == 4

\* the symbols of the texts: a letter, a terminal mark, a space, and closers of both
\* lists ('"') and of the list of the injection rules alone (")")
PunctSyms == { "a", ".", " ", "DQ", ")" }

RECURSIVE TextsOf(_)
TextsOf(n) ==
    IF n = 0 THEN { <<>> }
    ELSE TextsOf(n - 1) \cup
           { Append(t, c) : t \in { x \in TextsOf(n - 1) : Len(x) = n - 1 }, c \in PunctSyms }

\* "- '<fragment>' → '<fragment>.': 마침표가 없습니다."
PeriodClaim(fragment) == Bullet(fragment, fragment \o <<".">>, NoPeriod)

\* a function of sheet_review.py is called with a text and with no report, or with the
\* report that claims the text lacks its period
InitPunct ==
    /\ impl = "sheet_review"
    /\ side = "ko"
    /\ \E t \in TextsOf(MaxTextLen) :
         /\ row = [en_plain |-> <<>>, en_md |-> <<>>, ko_plain |-> t, ko_md |-> <<>>]
         /\ given \in { <<>>, PeriodClaim(t) }
    /\ reply_lines = [en |-> <<>>, ko |-> <<>>]
    /\ filtered = given
    /\ pc = "check"
    /\ max_retries = DefaultMaxRetries
    /\ attempt = 0
    /\ last_error = VNone
    /\ waits = <<>>
    /\ exhausted = {}
    /\ raw_en = VNone
    /\ raw_ko = VNone
    /\ final_en = VNone
    /\ final_ko = VNone
    /\ out = VNone
    /\ NoBatch

\* ensure_final_punctuation_error(text, report)
PunctFinal ==
    /\ pc = "check"
    /\ filtered' = ensure_final_punctuation_error(row.ko_plain, given)
    /\ pc' = "final"
    /\ UNCHANGED << impl, side, row, reply_lines, max_retries, attempt, last_error, waits,
                    exhausted, raw_en, raw_ko, final_en, final_ko, given, out >>
    /\ UNCHANGED batch

\* ensure_sentence_end_punctuation(text, report), with the same text and report
PunctSentence ==
    /\ pc = "final"
    /\ out' = VStr(ensure_sentence_end_punctuation(row.ko_plain, given))
    /\ pc' = "sentence"
    /\ UNCHANGED << impl, side, row, reply_lines, max_retries, attempt, last_error, waits,
                    exhausted, raw_en, raw_ko, final_en, final_ko, given, filtered >>
    /\ UNCHANGED batch

\* drop_false_period_claims(text, report)
PunctClaim ==
    /\ pc = "check"
    /\ filtered' = drop_false_period_claims(row.ko_plain, given)
    /\ pc' = "claim"
    /\ UNCHANGED << impl, side, row, reply_lines, max_retries, attempt, last_error, waits,
                    exhausted, raw_en, raw_ko, final_en, final_ko, given, out >>
    /\ UNCHANGED batch

NextPunct ==
    \/ PunctFinal
    \/ PunctSentence
    \/ PunctClaim

SpecPunct == InitPunct /\ [][NextPunct]_vars

-----------------------------------------------------------------------------
(* Properties                                                              *)

\* s without its white space
NoSpace(s) == LET keep(c) == ~IsSpace(c) IN SelectSeq(s, keep)

\* s without its white space and its zero-width spaces
NoSpaceZw(s) == LET keep(c) == ~IsSpace(c) /\ c # "ZWSP" IN SelectSeq(s, keep)

\* the matches of the lines of a report that match the bullet pattern
Quoted(report) ==
    { m \in { BulletMatch(Lines(report)[i], "base") : i \in 1..Len(Lines(report)) } : m.ok }

\* C1 as it is claimed: every bullet line that drop_lines_not_in_source or
\* sanitize_report lets through quotes an original that is in the source text as it
\* stands, or is in it once all white space is removed from both.
C1_AsClaimed ==
    pc \in { "grounded", "sanitized" } =>
        \A m \in Quoted(filtered) :
            \/ Contains(Text, m.orig)
            \/ Contains(NoSpace(Text), NoSpace(m.orig))

\* C1, grounding soundness: every bullet line that drop_lines_not_in_source (of
\* sheet_review.py or of app.py) or sanitize_report lets through quotes an original
\* that is in the source text as it stands, or is in it once all white space and all
\* zero-width spaces (U+200B) are removed from both.
C1_GroundingSoundness ==
    pc \in { "grounded", "sanitized" } =>
        \A m \in Quoted(filtered) :
            \/ Contains(Text, m.orig)
            \/ Contains(NoSpaceZw(Text), NoSpaceZw(m.orig))

\* the filter of sheet_review.py has dropped a bullet line and has kept another
\* one whose original is not in the text as it stands
C1_Witness ==
    /\ pc = "grounded"
    /\ impl = "sheet_review"
    /\ \E m \in Quoted(filtered) : ~Contains(Text, m.orig)
    /\ \E m \in Quoted(given) : m \notin Quoted(filtered)

\* an entry point has returned a dict
HasReturned == pc = "done" /\ ~out.raised

\* the report fields of the dict that was returned which hold a str
StrFields == { k \in ReportKeys : out[k].t = "str" }

\* the report fields of the dict that was returned which hold anything but ""
FilledFields == { k \in ReportKeys : out[k].t \notin { "absent", "none" } /\ out[k] # VStr(<<>>) }

\* C2, self-identity: in every report field of the dict that review_korean_text,
\* review_english_text or analyze_row_with_both_langs returns, no line that matches
\* the bullet pattern has an original equal to its replacement once both are
\* stripped, whatever the model replied.
C2_SelfIdentity ==
    HasReturned =>
        \A k \in StrFields : \A m \in Quoted(out[k].s) : strip(m.orig) # strip(m.fix)

\* C3, score consistency of the final result: the dict analyze_row_with_both_langs
\* (combined_final) or review_korean_text returns has a score in 1..5, which is 1
\* when all its report fields are empty and at least 3 when one of them is not.
C3_ScoreConsistency ==
    HasReturned /\ (impl = "sheet_review" \/ side = "ko") =>
        /\ out.suspicion_score.t = "int"
        /\ out.suspicion_score.n \in 1..5
        /\ FilledFields = {} => out.suspicion_score.n = 1
        /\ FilledFields # {} => out.suspicion_score.n >= 3

\* the Korean text was reviewed, and the reply was a dict without "ERROR" whose
\* translated_typo_report is a str
KoreanReplied ==
    /\ HasReturned
    /\ side = "ko"
    /\ raw_ko.t = "dict"
    /\ "ERROR" \notin DOMAIN raw_ko.f
    /\ GetOrNone(raw_ko, "translated_typo_report").t = "str"

\* the translated_typo_report of the reply, and its lines without the white space
\* around them
RepliedReport == GetOrNone(raw_ko, "translated_typo_report").s
RepliedLines == { strip(Lines(RepliedReport)[i]) : i \in 1..Len(Lines(RepliedReport)) }

\* the lines of the translated and of the markdown report that were returned
ReturnedLines ==
    UNION { { Lines(out[k].s)[i] : i \in 1..Len(Lines(out[k].s)) } :
              k \in StrFields \ { "content_typo_report" } }

\* the words that make the normalizer blank a whole report field
FieldMarkers == forbidden_keywords \cup forbidden_phrases

\* the words and patterns by which a filter of lines or the dedup picks its lines
LineMarkers ==
    false_patterns \cup false_keywords \cup space_style_keywords \cup WhiteClaimWords
    \cup app_korean_bad_phrases \cup { NeedlessPeriod }

\* a bullet line that is grounded, not self-identical, of one script and a small edit
SoundLine(l, grounded) ==
    LET m == BulletMatch(l, "base")
    IN  /\ m.ok
        /\ grounded
        /\ strip(m.orig) # strip(m.fix)
        /\ ~LanguageSwitch(m)
        /\ ~IsLargeEdit(m)

NormInput == IF side = "en" THEN raw_en ELSE raw_ko

\* validate_and_clean_analysis has returned or has raised
Normalizing == pc \in { "sanitize", "ground", "done", "raised" }

\* what validate_and_clean_analysis returned (Raised when it raised)
NormOutput ==
    IF pc = "raised" THEN Raised ELSE IF side = "en" THEN final_en ELSE final_ko

\* the reply is a dict with the key "ERROR"
HasError(v) == v.t = "dict" /\ "ERROR" \in DOMAIN v.f

\* the "message" of the "ERROR" object of the reply, where it has one that is a str
\* and not empty
MessagesOf(v) ==
    IF HasError(v) /\ v.f.ERROR.t = "dict"
    THEN { x.s : x \in { y \in { GetOrNone(v.f.ERROR, "message") } :
                           y.t = "str" /\ y.s # <<>> } }
    ELSE {}

\* C5, degraded result on a bad reply: validate_and_clean_analysis returns score 5,
\* a content report that is not empty and carries the error text, and empty
\* translated and markdown reports when its input is no dict, and also when its
\* input is a dict with the key "ERROR".
C5_DegradedResult ==
    Normalizing /\ (NormInput.t # "dict" \/ HasError(NormInput)) =>
        /\ ~NormOutput.raised
        /\ NormOutput.suspicion_score = VInt(5)
        /\ NormOutput.content_typo_report.t = "str"
        /\ NormOutput.content_typo_report.s # <<>>
        /\ \A msg \in MessagesOf(NormInput) : Contains(NormOutput.content_typo_report.s, msg)
        /\ NormOutput.translated_typo_report = VStr(<<>>)
        /\ NormOutput.markdown_report = VStr(<<>>)

\* C6, totality of the normalizer: for a reply that is a dict, whatever a report
\* field of it is (missing, None, a number, a list, a dict), validate_and_clean_analysis
\* returns and does not raise, every report field of its result is a str, and a field
\* that was missing or no str is the empty string.
C6_Totality ==
    Normalizing /\ NormInput.t = "dict" =>
        /\ ~NormOutput.raised
        /\ \A k \in ReportKeys :
              /\ NormOutput[k].t = "str"
              /\ ~HasError(NormInput) /\ GetOrNone(NormInput, k).t # "str"
                 => NormOutput[k] = VStr(<<>>)

\* the messages analyze_text_with_gemini of sheet_review.py returns when its last
\* attempt has failed
FailureMessages == { FailedPrefix("sheet_review") \o ErrText(kind) : kind \in FailKinds }

\* C7, degradation is visible to the caller: when every attempt of the call has
\* failed for the English or for the Korean text of a row, analyze_row_with_both_langs
\* returns, and combined_final has suspicion_score 5 and a content_typo_report that
\* holds the failure message.
C7_DegradationVisible ==
    impl = "sheet_review" /\ pc \in { "done", "raised" } /\ exhausted # {} =>
        /\ ~out.raised
        /\ out.suspicion_score = VInt(5)
        /\ out.content_typo_report.t = "str"
        /\ \E msg \in FailureMessages : Contains(out.content_typo_report.s, msg)

\* analyze_text_with_gemini has returned
CallDone == pc = "validate"

\* C8, bounded retry and degradation: analyze_text_with_gemini makes at most
\* max_retries calls, makes none after the first reply that decodes, waits
\* base * attemptNumber seconds between a failed attempt and the next one, returns
\* a dict whatever the model does, and after max_retries failed attempts returns the
\* record with suspicion_score 5, the failure message in content_typo_report and
\* the two other reports empty.
C8_BoundedRetry ==
    /\ attempt <= max_retries
    /\ \A i \in 1..Len(waits) : waits[i] = WaitBaseOf(impl) * i
    /\ pc = "call" => Len(waits) = attempt
    /\ CallDone =>
          /\ attempt >= 1 => Len(waits) = attempt - 1
          /\ ~ENABLED NextCall
          /\ raw_en.t = "dict"
          /\ "en" \in exhausted =>
                /\ attempt = max_retries
                /\ raw_en = ErrorReply(FailedPrefix(impl) \o last_error.s)

\* the lines of report field k of the dict that was returned
OutLines(k) ==
    IF out[k].t = "str" THEN { Lines(out[k].s)[i] : i \in 1..Len(Lines(out[k].s)) } ELSE {}

\* the words by which a line says that a terminal mark is missing
MissingMarkWords == false_keywords \cup app_korean_bad_phrases

\* "- '끝.' → '끝..': 마침표가 없습니다."
LineKkeut == Bullet(<<"h_kkeut", ".">>, <<"h_kkeut", ".", ".">>, NoPeriod)

\* a bullet line that holds one of the keywords and quotes an original which,
\* without its trailing white space, ends with a terminal mark or with a terminal
\* mark and one of the closers
FalseClaim(l, keywords, closers) ==
    ContainsAny(l, keywords) /\ QuotedEndOK(BulletMatch(l, "base"), closers)

\* C9 as it is claimed: when the source text, without its trailing white space,
\* ends with '.', '?' or '!' (and possibly one closing quote or bracket after it),
\* no line that says a terminal mark is missing is left in the report of that text.
C9_AsClaimed ==
    HasReturned /\ EndOK(rstrip(Text), Closers) =>
        \A l \in OutLines(IF side = "en" THEN "content_typo_report"
                          ELSE "translated_typo_report") :
            ~ContainsAny(l, MissingMarkWords)

\* C9, false-positive suppression: the pipeline removes every bullet line that holds
\* a missing-period keyword of its rule and whose quoted original, without trailing
\* white space, ends with '.', '?' or '!' (and possibly one closer of the rule's list
\* after it): from every report analyze_row_with_both_langs returns and from the
\* translated report of review_korean_text; review_english_text removes every line
\* with such a keyword when the English text itself ends with '.', '?' or '!'.  For
\* the source "끝." the finding that quotes '끝.' and claims a missing period is removed.
C9_FalsePositive ==
    HasReturned =>
        /\ impl = "sheet_review" =>
              \A k \in ReportKeys : \A l \in OutLines(k) :
                  ~FalseClaim(l, false_keywords, ClaimClosers)
        /\ impl = "app" /\ side = "ko" =>
              \A l \in OutLines("translated_typo_report") :
                  ~FalseClaim(l, app_korean_bad_phrases, Closers)
        /\ impl = "app" /\ side = "en" /\ EndOK(rstrip(en_text), {}) =>
              \A l \in OutLines("content_typo_report") : ~ContainsAny(l, app_bad_phrases)
        /\ side = "ko" /\ ko_text = <<"h_kkeut", ".">> =>
              LineKkeut \notin OutLines("translated_typo_report")

\* the Korean text "끝." was reviewed, the reply held the finding that quotes '끝.'
\* and claims a missing period, and the report that is returned does not hold it
C9_Witness ==
    /\ KoreanReplied
    /\ ko_text = <<"h_kkeut", ".">>
    /\ LineKkeut \in RepliedLines
    /\ ~ContainsAny(RepliedReport, FieldMarkers)
    /\ LineKkeut \notin OutLines("translated_typo_report")

\* C10, punctuation injection adds exactly one line: for a source text that is not
\* empty and whose end lacks a terminal mark, and an empty report, the injection as
\* the pipeline runs it (ensure_final_punctuation_error, then
\* ensure_sentence_end_punctuation) gives a report of exactly one advisory line.
C10_OneLineInjected ==
    /\ pc = "injected"
    /\ given = <<>>
    /\ ~Blank(Text)
    /\ ~EndOK(rstrip(Text), Closers)
    => Len(Lines(filtered)) = 1

\* the lines of a report, as a set
LineSet(report) == { Lines(report)[i] : i \in 1..Len(Lines(report)) }

\* the advisory line ensure_final_punctuation_error of the file that runs appends
FinalAdvisory == IF impl = "sheet_review" THEN FinalLine ELSE AppFinalLine

\* C11, idempotence of the punctuation injection: for every text and report r,
\* ensure_final_punctuation_error(text, ensure_final_punctuation_error(text, r)) is
\* ensure_final_punctuation_error(text, r), the same holds of
\* ensure_sentence_end_punctuation, and a report that already holds the advisory line
\* of a function comes back from it as it was given.
C11_InjectionIdempotent ==
    /\ pc = "final_2" => filtered = EnsureFinal(Text, given)
    /\ pc = "sentence_2" => filtered = EnsureSentence(Text, given)
    /\ pc = "final_1" /\ FinalAdvisory \in LineSet(given) => filtered = given
    /\ pc = "sentence_1" /\ SentenceLine \in LineSet(given) => filtered = given
\* the writing systems of a fragment
Scripts(s) ==
    (IF contains_hangul(s) THEN { "hangul" } ELSE {}) \cup
    (IF contains_latin(s) THEN { "latin" } ELSE {})

\* the line of a match, as the model writes reports
LineOf(l) == BulletMatch(l, "base")

\* C12, cross-language purge: drop_language_switch removes a bullet line whose
\* original is Hangul and whose replacement is Latin, or the reverse, and keeps every
\* bullet line whose original and replacement are written in the same script(s).
C12_LanguageSwitch ==
    pc = "switch" =>
        \A l \in LineSet(given) :
            LineOf(l).ok =>
                /\ ( \/ Scripts(LineOf(l).orig) = { "hangul" } /\ Scripts(LineOf(l).fix) = { "latin" }
                     \/ Scripts(LineOf(l).orig) = { "latin" } /\ Scripts(LineOf(l).fix) = { "hangul" } )
                   => l \notin LineSet(filtered)
                /\ Scripts(LineOf(l).orig) = Scripts(LineOf(l).fix) => l \in LineSet(filtered)
\* C13, oversized-edit purge: drop_large_edits removes a bullet line if and only if
\* the lengths of its original and of its replacement, each taken without its white
\* space, differ by 3 or more; every line that is not blank and is no bullet line is retained.
C13_LargeEdits ==
    pc = "large" =>
        \A l \in LineSet(given) :
            /\ LineOf(l).ok =>
                 ( l \notin LineSet(filtered)
                   <=> AbsDiff(Len(NoSpace(LineOf(l).orig)), Len(NoSpace(LineOf(l).fix))) >= 3 )
            /\ ~LineOf(l).ok /\ ~Empty(l) => l \in LineSet(filtered)
\* the normalizer of the file that runs, with the arguments its caller passes
Norm(v) ==
    IF impl = "sheet_review" THEN validate_and_clean_analysis(v)
    ELSE app_validate_and_clean_analysis(v, IF side = "en" THEN VStr(en_text) ELSE VNone)

\* a field that holds a text with a forbidden keyword or a "no errors" phrase
Marked(v) == v.t = "str" /\ ContainsAny(v.s, forbidden_keywords \cup forbidden_phrases)

\* the report fields of the reply that hold a text: those with a marker, the others
MarkedKeys(v) == { k \in ReportKeys \cap DOMAIN v.f : Marked(v.f[k]) }
CleanKeys(v) == { k \in ReportKeys \cap DOMAIN v.f : v.f[k].t = "str" /\ ~Marked(v.f[k]) }

\* what the normalizer gives for field k of the reply when the reply holds no other
\* report field
Alone(v, k) == Norm(VDict([x \in { k } |-> v.f[k]]))[k]

\* the purge on a reply v whose normalization gave res: the fields with a marker are
\* empty, and every other field that holds a text is what it is without its siblings
FieldPurge(v, res) ==
    /\ \A k \in MarkedKeys(v) : res[k] = VStr(<<>>)
    /\ \A k \in CleanKeys(v) : res[k] = Alone(v, k)

\* C14 as it is claimed: whenever a report field of the reply holds a forbidden
\* keyword or a "no errors" phrase anywhere in its text, that field is the empty
\* string in the output of validate_and_clean_analysis, and the other report fields
\* of the same reply are not blanked by it, for every reply that is a dict.
C14_AsClaimed ==
    Normalizing /\ NormInput.t = "dict" /\ ~NormOutput.raised =>
        FieldPurge(NormInput, NormOutput)

\* C14, whole-field policy purge: the same for every reply that is a dict without the
\* key "ERROR", the replies the purge is run on.
C14_FieldPurge ==
    Normalizing /\ NormInput.t = "dict" /\ ~HasError(NormInput) /\ ~NormOutput.raised =>
        FieldPurge(NormInput, NormOutput)

\* a reply with a marker in one field and a clean text in another was normalized:
\* the first field is empty and the second is not
C14_Witness ==
    /\ Normalizing
    /\ NormInput.t = "dict"
    /\ ~HasError(NormInput)
    /\ ~NormOutput.raised
    /\ \E k \in MarkedKeys(NormInput), j \in CleanKeys(NormInput) :
         /\ NormOutput[k] = VStr(<<>>)
         /\ NormOutput[j].t = "str"
         /\ NormOutput[j].s # <<>>
\* C15, idempotence of the dedup: for every report r,
\* dedup_korean_bullet_lines(dedup_korean_bullet_lines(r)) is
\* dedup_korean_bullet_lines(r).
C15_DedupIdempotent == pc = "dedup_2" => filtered = Dedup(given)

\* the dedup ran twice on a report from which its first run dropped a duplicate or a
\* subsumed line
C15_Witness ==
    /\ pc = "dedup_2"
    /\ filtered # given
    /\ \E l \in LineSet(given) : ~Empty(l) /\ l \notin LineSet(filtered)
    /\ LineSet(filtered) # {}
\* the match of a line under the pattern of the dedup, which also takes the explanation
ClaimOf(l) == BulletMatch(l, "msg")

\* a is a proper substring of b
ProperSub(a, b) == Contains(b, a) /\ Len(a) < Len(b)

\* the lines of a report that claim a needless period
NeedlessLines(report) == { l \in LineSet(report) : NeedlessClaim(ClaimOf(l)) }

\* C16, subsumption in the dedup: among the lines whose explanation holds "불필요한
\* 마침표", dedup_korean_bullet_lines drops a line exactly when its original is a
\* proper substring of the original of another such line, so no two such lines that
\* survive are in that relation; a line of any other kind is never dropped by this
\* step, even when its fragment is a substring of another line's fragment.
C16_Subsumption ==
    pc = "dedup_1" =>
        /\ \A l \in NeedlessLines(given) :
             l \notin LineSet(filtered)
             <=> \E k \in NeedlessLines(given) : ProperSub(ClaimOf(l).orig, ClaimOf(k).orig)
        /\ \A l, k \in NeedlessLines(filtered) : ~ProperSub(ClaimOf(l).orig, ClaimOf(k).orig)
        /\ \A l \in LineSet(given) \ NeedlessLines(given) : ~Empty(l) => l \in LineSet(filtered)

\* the dedup dropped a subsumed claim of a needless period and kept a line of another
\* kind whose fragment is a substring of the fragment of a line that survived
C16_Witness ==
    /\ pc = "dedup_1"
    /\ \E l \in NeedlessLines(given) : l \notin LineSet(filtered)
    /\ \E l \in LineSet(filtered) \ NeedlessLines(filtered) :
         \E k \in NeedlessLines(filtered) :
            ClaimOf(l).ok /\ ProperSub(ClaimOf(l).orig, ClaimOf(k).orig)
\* the bullet line l quotes a fragment of the markdown text that the plain text lacks
MarkdownOnly(l) ==
    /\ LineOf(l).ok
    /\ Contains(row.ko_md, LineOf(l).orig)
    /\ ~Contains(row.ko_plain, LineOf(l).orig)

\* C17, source split routing: split_report_by_source puts a bullet line in the
\* markdown bucket if and only if its original occurs in the markdown text and not in
\* the plain text; a bullet line whose original occurs in the plain text only, in both
\* texts or in neither, and every line (that is not blank) which is no bullet line, is
\* put in the plain bucket; the buckets hold no other line.
C17_SourceSplit ==
    pc = "split" =>
        /\ \A l \in LineSet(given) :
             ~Empty(l) =>
                 /\ l \in LineSet(out[2]) <=> MarkdownOnly(l)
                 /\ l \in LineSet(out[1]) <=> ~MarkdownOnly(l)
        /\ LineSet(out[1]) \cup LineSet(out[2]) \subseteq LineSet(given)

\* a report was split whose lines quote a fragment of the markdown text alone and a
\* fragment of both texts: the first went to the markdown bucket, the second to the
\* plain bucket
C17_Witness ==
    /\ pc = "split"
    /\ \E l \in LineSet(out[2]) : MarkdownOnly(l)
    /\ \E l \in LineSet(out[1]) :
         /\ LineOf(l).ok
         /\ Contains(row.ko_md, LineOf(l).orig)
         /\ Contains(row.ko_plain, LineOf(l).orig)
\* the data rows of the worksheet
DataRows == 1..Len(sheet.rows)

\* the data rows whose STATUS was the request when the run read the sheet
RequestedRows == { i \in 1..Len(df) : df[i].STATUS = ReviewRequested }

\* C18, workflow gate: in a batch run (run_sheet_review, main of passage_ai_eng.py) a
\* cell is written only in rows whose STATUS was "1. AI검수요청" when the sheet was read;
\* a row with any other status is never written and keeps its cells; and when no row
\* carries the request, no row is analysed (no call of the model) and nothing is
\* written.
C18_WorkflowGate ==
    /\ \A i \in DataRows : sheet.rows[i].hits > 0 => i \in RequestedRows
    /\ \A i \in DataRows \ RequestedRows :
         /\ sheet.rows[i].SCORE = ""
         /\ sheet.rows[i].REPORTS = ""
         /\ sheet.rows[i].STATUS \in Statuses
         /\ df # <<>> => sheet.rows[i].STATUS = df[i].STATUS
    /\ pc # "open" /\ RequestedRows = {} => analyzed = 0 /\ writes = 0

\* a run has written a sheet that holds a row with the request and a row with
\* another status: the first row is written, the second is not
C18_Witness ==
    /\ pc = "returned"
    /\ writes = 1
    /\ \E i \in DataRows : sheet.rows[i].hits = 1 /\ sheet.rows[i].STATUS = ReviewDone(impl)
    /\ \E i \in DataRows \ RequestedRows : sheet.rows[i].hits = 0

\* C19, one bulk write at the end: during one run the worksheet is written at most
\* once; that write comes only when every target row has been analysed; and in every
\* state before it, also when the analysis of a row has raised, no cell of the sheet
\* is modified.
C19_SingleBulkWrite ==
    /\ writes <= 1
    /\ writes = 1 =>
         /\ todo = <<>>
         /\ analyzed = Cardinality(RequestedRows)
         /\ Len(results) = Cardinality(RequestedRows)
    /\ writes = 0 =>
         \A i \in DataRows :
            /\ sheet.rows[i].hits = 0
            /\ sheet.rows[i].SCORE = ""
            /\ sheet.rows[i].REPORTS = ""
            /\ sheet.rows[i].STATUS \in Statuses
            /\ df # <<>> => sheet.rows[i].STATUS = df[i].STATUS

\* a run over two targets or more has written the sheet, once, after its last analysis
C19_Witness ==
    /\ pc = "returned"
    /\ writes = 1
    /\ Len(results) >= 2
    /\ \A k \in 1..Len(results) : sheet.rows[DataRowOf(results[k].sheet_row_index)].hits = 1
\* the bullet line l quotes a fragment of one of the texts under review, as it stands
\* or, in the way of the grounding filter, without its spaces
QuotesSource(l) ==
    \/ ~LineOf(l).ok
    \/ Grounded(LineOf(l), ko_text) /\ ~Empty(ko_text)
    \/ Grounded(LineOf(l), en_text) /\ ~Empty(en_text)

\* C20, synthetic findings carry no original/replacement pair: the advisory lines of
\* ensure_final_punctuation_error and ensure_sentence_end_punctuation do not match the
\* bullet pattern, so in the final reports of review_korean_text and of
\* analyze_row_with_both_langs every line that matches the bullet pattern quotes a
\* fragment of the reviewed source text.
C20_SyntheticUnquoted ==
    HasReturned /\ ~(impl = "app" /\ side = "en") =>
        \A k \in StrFields \ (IF impl = "app" THEN { "content_typo_report", "markdown_report" }
                              ELSE {}) :
            \A l \in LineSet(out[k].s) : QuotesSource(l)

\* C21, grounding completeness under reformatting: drop_lines_not_in_source keeps
\* every bullet line whose original is in the source text once all white space and
\* all zero-width spaces (U+200B) are removed from both the original and the text.
C21_GroundingComplete ==
    pc = "grounded" =>
        \A l \in LineSet(given) :
            (LineOf(l).ok /\ Contains(NoSpaceZw(Text), NoSpaceZw(LineOf(l).orig)))
                => l \in LineSet(filtered)

\* the score the reply v asks for, read as an integer (1 when it cannot be) and
\* brought into 1..5
Coerced(v) ==
    LET score == GetOrNone(v, "suspicion_score")
        n     == IF IntOK(score) THEN IntOf(score) ELSE 1
    IN  IF n < 1 THEN 1 ELSE IF n > 5 THEN 5 ELSE n

\* the returned reports are all empty
NoReportLeft(res) == \A k \in ReportKeys : ~Truthy(res[k])

\* C22, score coercion in the normalizer: for every reply that is a dict,
\* validate_and_clean_analysis (of sheet_review.py and of app.py) returns an integer
\* score in 1..5: 1 when the three returned reports are empty, 3 when one is not empty
\* and the coerced score of the reply is 1, and the coerced score otherwise.
C22_ScoreCoercion ==
    (Normalizing /\ NormInput.t = "dict") =>
        /\ ~NormOutput.raised
        /\ NormOutput.suspicion_score.t = "int"
        /\ NormOutput.suspicion_score.n \in 1..5
        /\ NormOutput.suspicion_score.n =
             IF NoReportLeft(NormOutput) THEN 1
             ELSE IF Coerced(NormInput) = 1 THEN 3 ELSE Coerced(NormInput)

\* C23, the score of the standalone batch script: for every reply that is a dict,
\* validate_and_clean_analysis of passage_ai_eng.py returns a score that is an integer
\* in 1..5, and main writes that integer to the SCORE column.
C23_PassageScore ==
    (impl = "passage_ai_eng" /\ raw_ko.t = "dict" /\ pc # "validate") =>
        /\ final_ko # VNone
        /\ final_ko.suspicion_score.t = "int"
        /\ final_ko.suspicion_score.n \in 1..5
        /\ out # VNone => out.s \in { <<"1">>, <<"2">>, <<"3">>, <<"4">>, <<"5">> }

\* the index of the first copy of line l in lines
FirstAt(lines, l) == Least({ i \in 1..Len(lines) : lines[i] = l })

\* kept holds no line twice, each of its lines is a line of lines, and its lines stand
\* in the order of their first copies in lines
InFirstOrder(lines, kept) ==
    /\ \A i \in 1..Len(kept) : \E k \in 1..Len(lines) : lines[k] = kept[i]
    /\ \A i, j \in 1..Len(kept) :
         i < j => /\ kept[i] # kept[j]
                  /\ FirstAt(lines, kept[i]) < FirstAt(lines, kept[j])

\* C24, the removal of exact duplicates keeps the order: the output of
\* dedup_korean_bullet_lines holds no line twice, every line of it is a line of the
\* input, and its lines stand in the order of their first occurrences in the input.
C24_DedupOrder == pc = "dedup_1" => InFirstOrder(Lines(given), Lines(filtered))

\* the dedup ran on a report whose first line comes back after another line, and kept
\* both lines
C24_Witness ==
    /\ pc = "dedup_1"
    /\ Len(Lines(given)) = 3
    /\ Lines(given)[1] = Lines(given)[3]
    /\ Lines(given)[1] # Lines(given)[2]
    /\ Len(Lines(filtered)) = 2

\* the number of analyses that have completed
Completed == Len(results)

\* C25, order of the progress reports: run_sheet_review calls the progress callback
\* once for each target row, the i-th call with done = i and total = the number of
\* target rows, and the call with done = i is made only after the analysis of the
\* i-th target row has completed.
C25_ProgressOrder ==
    (progress.given /\ df # <<>>) =>
        /\ \A k \in 1..Len(progress.calls) :
             /\ progress.calls[k].done = k
             /\ progress.calls[k].total = Len(Targets(df, 1))
             /\ progress.calls[k].done <= Completed
        /\ pc = "returned" => Len(progress.calls) = Len(Targets(df, 1))

\* whether a is b without some of its elements (the rest in the order of b)
RECURSIVE IsSubSeq(_, _)
IsSubSeq(a, b) ==
    IF Len(a) = 0 THEN TRUE
    ELSE IF Len(b) = 0 THEN FALSE
    ELSE IF Head(a) = Head(b) THEN IsSubSeq(Tail(a), Tail(b))
    ELSE IsSubSeq(a, Tail(b))

\* C26, the sanitization chain only removes: for every source text and report, the
\* lines of the output of sanitize_report are trimmed lines of the input report, in
\* the order they have there; no line is added or rewritten.
C26_OnlyRemoves == pc = "sanitized" => IsSubSeq(Lines(filtered), Lines(given))

\* the chain ran on a report of two lines that differ, dropped one and kept the other
C26_Witness ==
    /\ pc = "sanitized"
    /\ Len(Lines(given)) = 2
    /\ Lines(given)[1] # Lines(given)[2]
    /\ Len(Lines(filtered)) = 1

\* the lines of a report that are not blank, trimmed
NonBlankLines(report) == LET nonblank(l) == ~Empty(l) IN SelectSeq(Lines(report), nonblank)

\* C27, the source split is a partition: for every report and pair of texts, every
\* line of the report that is not blank is, trimmed, in exactly one of the two outputs
\* of split_report_by_source, copy for copy; the outputs hold no other line, and each
\* output holds its lines in the order of the input.
C27_SplitPartition ==
    pc = "split" =>
        /\ \A l \in LineSet(given) :
             ~Empty(l) => (l \in LineSet(out[1])) # (l \in LineSet(out[2]))
        /\ LineSet(out[1]) \cup LineSet(out[2]) \subseteq LineSet(given) \ { <<>> }
        /\ IsSubSeq(Lines(out[1]), Lines(given))
        /\ IsSubSeq(Lines(out[2]), Lines(given))
        /\ Len(Lines(out[1])) + Len(Lines(out[2])) = Len(NonBlankLines(given))

\* a report of three lines was split: a line went to the markdown bucket between two
\* lines that went to the plain bucket
C27_Witness ==
    /\ pc = "split"
    /\ Len(Lines(given)) = 3
    /\ Lines(out[1]) = << Lines(given)[1], Lines(given)[3] >>
    /\ Lines(out[2]) = << Lines(given)[2] >>

\* C28, the paragraph-level check implies the sentence-level check: for every text, if
\* ensure_final_punctuation_error finds the end of the paragraph without a terminal
\* mark, ensure_sentence_end_punctuation finds a sentence without one; so when every
\* sentence passes the per-sentence check, the paragraph passes the paragraph check.
C28_FinalImpliesSentence ==
    (pc = "sentence" /\ Empty(given)) =>
        /\ filtered = FinalLine => out.s = SentenceLine
        /\ out.s = <<>> => filtered = <<>>

\* both checks ran on a text of two sentences whose first ends with a terminal mark
\* and whose last does not: both found the missing mark
C28_Witness ==
    /\ pc = "sentence"
    /\ Empty(given)
    /\ Len(SentenceSplit(strip(row.ko_plain))) = 2
    /\ Len(MissingSentences(row.ko_plain)) = 1
    /\ filtered = FinalLine
    /\ out.s = SentenceLine

\* the injection rules treat the fragment as a text that ends with a terminal mark
InjectionTerminated(fragment) ==
    /\ ~Blank(fragment)
    /\ ensure_final_punctuation_error(fragment, <<>>) = <<>>
    /\ ensure_sentence_end_punctuation(fragment, <<>>) = <<>>

\* C29, one definition of terminal punctuation: every fragment the injection rules
\* (ensure_final_punctuation_error, ensure_sentence_end_punctuation) treat as ending
\* with a terminal mark is treated so by drop_false_period_claims, which drops a claim
\* of a missing period that quotes such a fragment.
C29_OneDefinition ==
    (pc = "claim" /\ ~Empty(given) /\ LineOf(given).ok /\ LineOf(given).orig = row.ko_plain
       /\ InjectionTerminated(row.ko_plain))
        => filtered = <<>>

\* the fragment occurs in the markdown text and not in the plain text
OnlyInMarkdown(fragment, plain_text, md_text) ==
    Contains(md_text, fragment) /\ ~Contains(plain_text, fragment)

\* the lines of field key of a reply (none when the reply has no such str)
FindingsOf(reply, key) ==
    IF reply.t = "dict" /\ Get(reply, key, VNone).t = "str"
    THEN LineSet(Get(reply, key, VNone).s)
    ELSE {}

\* C30, content of the markdown bucket: every line of markdown_report in a combined
\* result of analyze_row_with_both_langs matches the bullet pattern and quotes a
\* fragment that occurs in the row's English or Korean markdown text and not in the
\* plain text of that language; it is a finding of content_typo_report of the English
\* reply or of translated_typo_report of the Korean reply, never an injected advisory
\* and never a line taken from the markdown_report field of a reply.
C30_MarkdownBucket ==
    (impl = "sheet_review" /\ pc = "done" /\ ~out.raised) =>
        \A l \in LineSet(out.markdown_report.s) :
            /\ LineOf(l).ok
            /\ \/ OnlyInMarkdown(LineOf(l).orig, row.en_plain, row.en_md)
               \/ OnlyInMarkdown(LineOf(l).orig, row.ko_plain, row.ko_md)
            /\ l \notin { FinalLine, SentenceLine }
            /\ l \in FindingsOf(raw_en, "content_typo_report")
                       \cup FindingsOf(raw_ko, "translated_typo_report")

\* a row is done whose combined markdown_report holds a finding, while the Korean
\* reply carried a line in its own markdown_report field
C30_Witness ==
    /\ impl = "sheet_review"
    /\ pc = "done"
    /\ ~out.raised
    /\ out.markdown_report.s # <<>>
    /\ raw_ko.t = "dict"
    /\ Truthy(Get(raw_ko, "markdown_report", VNone))

====
